---- MODULE Spec2Model ----
(***************************************************************************)
(* Blackjack over TCP/UDP: the wire codec (protocol.py), the round and     *)
(* session logic of the server (server.py) and the hand arithmetic shared  *)
(* with the client (client.py).                                            *)
(*                                                                         *)
(* A connection is a byte stream.  Bytes are naturals 0..255, a message is *)
(* a sequence of bytes, the stream a connection has not yet read is a      *)
(* sequence of chunks, one per sendall of the peer.  A card is <<rank,     *)
(* suit>>, a deck a sequence of cards whose last element is the top.       *)
(***************************************************************************)
EXTENDS Integers, Sequences, FiniteSets, TLC

(***************************************************************************)
(* Bounds of the exploration.                                              *)
(***************************************************************************)
\* random.shuffle is explored over every order of PoolCards on top of the
\* deck and over the first ExampleDecks decks of ExampleTops.
ExampleDecks == 2
\* Largest round count a well-formed request of the explored client declares.
MaxRounds == 2
\* Largest number of client writes a connection holds unread.
MaxInFlight == 1
\* Longest rank sequence handed to hand_value on its own.
MaxHandLen == 4

\* Seconds a sock.recv call without a timeout is followed.
MaxWait == 11

\* Connection slots of the server: one handler thread each.
Conns == {"c1", "c2"}
\* The connection of the single-session specification.
FirstConn == "c1"

(***************************************************************************)
(* protocol.py: constants                                                  *)
(***************************************************************************)
\* 0xabcddcba as the four bytes "!I" writes; the value itself exceeds the
\* integers TLC computes with.
MAGIC_COOKIE == <<171, 205, 220, 186>>
MSG_TYPE_OFFER == 2
MSG_TYPE_REQUEST == 3
MSG_TYPE_PAYLOAD == 4
OFFER_UDP_PORT == 13122

\* b"Hittt" and b"Stand"
DECISION_HIT == <<72, 105, 116, 116, 116>>
DECISION_STAND == <<83, 116, 97, 110, 100>>

RES_NOT_OVER == 0
RES_TIE == 1
RES_LOSS == 2
RES_WIN == 3

\* struct sizes: "!IBH32s", "!IBB32s", "!IB5s", "!IBBHB"
OFFER_SIZE == 39
REQUEST_SIZE == 38
PAYLOAD_CLIENT_SIZE == 10
PAYLOAD_SERVER_SIZE == 9
NAME_SIZE == 32

\* server.py line 183: conn.settimeout(10.0), in seconds
SERVER_TIMEOUT == 10
\* client.py line 55: tcp.settimeout(3.0) before tcp.connect
CLIENT_CONNECT_TIMEOUT == 3
\* client.py line 60: tcp.settimeout(8.0) once connected
CLIENT_TIMEOUT == 8

\* "NoSocketsJustCards_v2" as code points
TEAM_NAME ==
  <<78, 111, 83, 111, 99, 107, 101, 116, 115, 74, 117, 115, 116,
    67, 97, 114, 100, 115, 95, 118, 50>>

(***************************************************************************)
(* Byte helpers                                                            *)
(***************************************************************************)
Zeros(k) == [i \in 1..k |-> 0]

\* "!H": two bytes, big-endian
BE16(n) == <<n \div 256, n % 256>>

\* A reader that takes the low byte first.
UnBE16_little(b) == b[1] + b[2] * 256

UnBE16(b) == b[1] * 256 + b[2]

RECURSIVE Flatten(_)
Flatten(chunks) ==
  IF chunks = <<>> THEN <<>> ELSE Head(chunks) \o Flatten(Tail(chunks))

\* The chunks left once the first n bytes of the stream are consumed.
RECURSIVE DropBytes(_, _)
DropBytes(chunks, n) ==
  IF n = 0 \/ chunks = <<>> THEN chunks
  ELSE IF Len(Head(chunks)) <= n
       THEN DropBytes(Tail(chunks), n - Len(Head(chunks)))
       ELSE <<SubSeq(Head(chunks), n + 1, Len(Head(chunks)))>> \o Tail(chunks)

\* str.encode("utf-8", errors="ignore") for code points below 65536;
\* surrogates cannot be encoded and are dropped.
RECURSIVE utf8_encode(_)
utf8_encode(s) ==
  IF s = <<>> THEN <<>>
  ELSE LET cp == Head(s)
           b == IF cp < 128 THEN <<cp>>
                ELSE IF cp < 2048 THEN <<192 + (cp \div 64), 128 + (cp % 64)>>
                ELSE IF cp >= 55296 /\ cp <= 57343 THEN <<>>
                ELSE <<224 + (cp \div 4096), 128 + ((cp \div 64) % 64), 128 + (cp % 64)>>
       IN b \o utf8_encode(Tail(s))

IsCont(b) == b >= 128 /\ b <= 191

\* The second byte of a three-byte sequence: no overlong form after 0xE0,
\* no surrogate after 0xED.
IsSecondOfThree(h, b) ==
  /\ IsCont(b)
  /\ h = 224 => b >= 160
  /\ h = 237 => b <= 159

\* bytes.decode("utf-8", errors="ignore") on sequences of up to three
\* bytes: a byte that starts no valid sequence is dropped and decoding
\* resumes with the next byte.  Lead bytes of four-byte sequences are
\* outside the explored alphabet and are dropped like any invalid byte.
RECURSIVE utf8_decode(_)
utf8_decode(b) ==
  IF b = <<>> THEN <<>>
  ELSE LET h == Head(b) IN
       IF h < 128 THEN <<h>> \o utf8_decode(Tail(b))
       ELSE IF h >= 194 /\ h <= 223 /\ Len(b) >= 2 /\ IsCont(b[2])
            THEN <<(h - 192) * 64 + (b[2] - 128)>> \o utf8_decode(SubSeq(b, 3, Len(b)))
       ELSE IF h >= 224 /\ h <= 239 /\ Len(b) >= 3 /\ IsSecondOfThree(h, b[2]) /\ IsCont(b[3])
            THEN <<(h - 224) * 4096 + (b[2] - 128) * 64 + (b[3] - 128)>>
                   \o utf8_decode(SubSeq(b, 4, Len(b)))
            ELSE utf8_decode(Tail(b))

encode_fixed_name(name, size) ==
  LET b == utf8_encode(name) IN
  IF Len(b) >= size THEN SubSeq(b, 1, size) ELSE b \o Zeros(size - Len(b))

\* raw.split(b"\x00", 1)[0]
RECURSIVE UntilZero(_)
UntilZero(raw) ==
  IF raw = <<>> \/ Head(raw) = 0 THEN <<>> ELSE <<Head(raw)>> \o UntilZero(Tail(raw))

decode_fixed_name(raw) == utf8_decode(UntilZero(raw))

(***************************************************************************)
(* protocol.py: request, decision and round payload                        *)
(* A pack/unpack result is a record: ok says whether the call returned,    *)
(* err names the exception otherwise.                                      *)
(***************************************************************************)
Raise(e) == [ok |-> FALSE, err |-> e]

\* OFFER_STRUCT.pack on already validated fields
RawOffer(cookie, mtype, port, name_bytes) == cookie \o <<mtype>> \o BE16(port) \o name_bytes

\* lines 72-79
pack_offer(server_tcp_port, server_name) ==
  IF ~(0 <= server_tcp_port /\ server_tcp_port <= 65535) THEN Raise("ValueError")
  ELSE [ok |-> TRUE,
        data |-> RawOffer(MAGIC_COOKIE, MSG_TYPE_OFFER, server_tcp_port,
                          encode_fixed_name(server_name, NAME_SIZE))]

\* An unpack_offer that does not look at the message type.
unpack_offer_anytype(data) ==
  IF Len(data) # OFFER_SIZE THEN Raise("ValueError")
  ELSE IF SubSeq(data, 1, 4) # MAGIC_COOKIE THEN Raise("ValueError")
  ELSE [ok |-> TRUE, port |-> UnBE16(SubSeq(data, 6, 7)),
        name |-> decode_fixed_name(SubSeq(data, 8, OFFER_SIZE))]

\* lines 82-94
unpack_offer(data) ==
  IF Len(data) # OFFER_SIZE THEN Raise("ValueError")
  ELSE IF SubSeq(data, 1, 4) # MAGIC_COOKIE THEN Raise("ValueError")
  ELSE IF data[5] # MSG_TYPE_OFFER THEN Raise("ValueError")
  ELSE [ok |-> TRUE, port |-> UnBE16(SubSeq(data, 6, 7)),
        name |-> decode_fixed_name(SubSeq(data, 8, OFFER_SIZE))]

\* REQUEST_STRUCT.pack on already validated fields
RawRequest(cookie, mtype, num_rounds, name_bytes) ==
  cookie \o <<mtype, num_rounds>> \o name_bytes

pack_request(num_rounds, client_name) ==
  IF ~(1 <= num_rounds /\ num_rounds <= 255) THEN Raise("ValueError")
  ELSE [ok |-> TRUE,
        data |-> RawRequest(MAGIC_COOKIE, MSG_TYPE_REQUEST, num_rounds,
                            encode_fixed_name(client_name, NAME_SIZE))]

\* An unpack_request without the num_rounds == 0 check.
unpack_request_nozero(data) ==
  IF Len(data) # REQUEST_SIZE THEN Raise("ValueError")
  ELSE IF SubSeq(data, 1, 4) # MAGIC_COOKIE THEN Raise("ValueError")
  ELSE IF data[5] # MSG_TYPE_REQUEST THEN Raise("ValueError")
  ELSE [ok |-> TRUE, num_rounds |-> data[6],
        client_name |-> decode_fixed_name(SubSeq(data, 7, REQUEST_SIZE))]

unpack_request(data) ==
  IF Len(data) # REQUEST_SIZE THEN Raise("ValueError")
  ELSE IF SubSeq(data, 1, 4) # MAGIC_COOKIE THEN Raise("ValueError")
  ELSE IF data[5] # MSG_TYPE_REQUEST THEN Raise("ValueError")
  ELSE IF data[6] = 0 THEN Raise("ValueError")
  ELSE [ok |-> TRUE, num_rounds |-> data[6],
        client_name |-> decode_fixed_name(SubSeq(data, 7, REQUEST_SIZE))]

RawPayloadClient(cookie, mtype, decision) == cookie \o <<mtype>> \o decision

pack_payload_client(decision) ==
  IF decision \notin {DECISION_HIT, DECISION_STAND} THEN Raise("ValueError")
  ELSE [ok |-> TRUE, data |-> RawPayloadClient(MAGIC_COOKIE, MSG_TYPE_PAYLOAD, decision)]

\* An unpack_payload_client without the check of the decision text.
unpack_payload_client_anydecision(data) ==
  IF Len(data) # PAYLOAD_CLIENT_SIZE THEN Raise("ValueError")
  ELSE IF SubSeq(data, 1, 4) # MAGIC_COOKIE THEN Raise("ValueError")
  ELSE IF data[5] # MSG_TYPE_PAYLOAD THEN Raise("ValueError")
  ELSE [ok |-> TRUE,
        decision |-> IF SubSeq(data, 6, 10) = DECISION_STAND
                     THEN DECISION_STAND ELSE DECISION_HIT]

unpack_payload_client(data) ==
  IF Len(data) # PAYLOAD_CLIENT_SIZE THEN Raise("ValueError")
  ELSE IF SubSeq(data, 1, 4) # MAGIC_COOKIE THEN Raise("ValueError")
  ELSE IF data[5] # MSG_TYPE_PAYLOAD THEN Raise("ValueError")
  ELSE IF SubSeq(data, 6, 10) \notin {DECISION_HIT, DECISION_STAND}
       THEN Raise("ValueError")
  ELSE [ok |-> TRUE, decision |-> SubSeq(data, 6, 10)]

pack_payload_server(result, rank, suit) ==
  IF ~(0 <= result /\ result <= 3) THEN Raise("ValueError")
  ELSE IF ~(1 <= rank /\ rank <= 13) THEN Raise("ValueError")
  ELSE IF ~(0 <= suit /\ suit <= 3) THEN Raise("ValueError")
  ELSE [ok |-> TRUE,
        data |-> MAGIC_COOKIE \o <<MSG_TYPE_PAYLOAD, result>> \o BE16(rank) \o <<suit>>]

\* An unpack_payload_server that does not look at the message type.
unpack_payload_server_anytype(data) ==
  IF Len(data) # PAYLOAD_SERVER_SIZE THEN Raise("ValueError")
  ELSE IF SubSeq(data, 1, 4) # MAGIC_COOKIE THEN Raise("ValueError")
  ELSE [ok |-> TRUE, result |-> data[6],
        rank |-> UnBE16(SubSeq(data, 7, 8)), suit |-> data[9]]

unpack_payload_server(data) ==
  IF Len(data) # PAYLOAD_SERVER_SIZE THEN Raise("ValueError")
  ELSE IF SubSeq(data, 1, 4) # MAGIC_COOKIE THEN Raise("ValueError")
  ELSE IF data[5] # MSG_TYPE_PAYLOAD THEN Raise("ValueError")
  ELSE [ok |-> TRUE, result |-> data[6],
        rank |-> UnBE16(SubSeq(data, 7, 8)), suit |-> data[9]]

(***************************************************************************)
(* server.py / client.py: hand arithmetic                                  *)
(***************************************************************************)
card_points(rank) ==
  IF rank = 1 THEN 11 ELSE IF rank >= 11 THEN 10 ELSE rank

RECURSIVE SumPoints(_)
SumPoints(ranks) ==
  IF ranks = <<>> THEN 0 ELSE card_points(Head(ranks)) + SumPoints(Tail(ranks))

RECURSIVE CountAces(_)
CountAces(ranks) ==
  IF ranks = <<>> THEN 0
  ELSE (IF Head(ranks) = 1 THEN 1 ELSE 0) + CountAces(Tail(ranks))

\* while total > 21 and aces > 0: total -= 10; aces -= 1
RECURSIVE ReduceAces(_, _)
ReduceAces(total, aces) ==
  IF total > 21 /\ aces > 0 THEN ReduceAces(total - 10, aces - 1) ELSE total

\* A hand_value without the ace loop.
hand_value_noreduce(ranks) == SumPoints(ranks)

\* lines 41-51
hand_value(ranks) == ReduceAces(SumPoints(ranks), CountAces(ranks))

\* client.py carries its own copy of both functions.
client_card_points(rank) ==
  IF rank = 1 THEN 11 ELSE IF rank >= 11 THEN 10 ELSE rank

RECURSIVE ClientSumPoints(_)
ClientSumPoints(ranks) ==
  IF ranks = <<>> THEN 0
  ELSE client_card_points(Head(ranks)) + ClientSumPoints(Tail(ranks))

client_hand_value(ranks) == ReduceAces(ClientSumPoints(ranks), CountAces(ranks))

Ranks(cards) == [i \in 1..Len(cards) |-> cards[i][1]]

(***************************************************************************)
(* server.py: deck                                                         *)
(***************************************************************************)
\* [(rank, suit) for suit in range(4) for rank in range(1, 14)]
UnshuffledDeck == [i \in 1..52 |-> <<((i - 1) % 13) + 1, (i - 1) \div 13>>]

Reverse(q) == [i \in 1..Len(q) |-> q[Len(q) + 1 - i]]

\* The outcome of random.shuffle that deals the cards of `tops` first, in
\* that order, and leaves the other cards in their unshuffled order.
DeckDealing(tops) ==
  LET dealt == {tops[i] : i \in 1..Len(tops)}
  IN SelectSeq(UnshuffledDeck, LAMBDA c : c \notin dealt) \o Reverse(tops)

\* Cards the explored shuffles permute on top of the deck: ten, nine, six
\* and ace of hearts.
PoolCards == {<<10, 0>>, <<9, 0>>, <<6, 0>>, <<1, 0>>}

PoolOrders ==
  {q \in [1..Cardinality(PoolCards) -> PoolCards] : \A i, j \in DOMAIN q : q[i] = q[j] => i = j}

\* Further deals: a dealer who hits up to 21, a tie, ace-nine against
\* seven-ten, a dealer with a soft hand, a player dealt two aces.
ExampleTops ==
  << << <<10, 0>>, <<9, 0>>, <<6, 0>>, <<10, 1>>, <<5, 0>>, <<2, 0>> >>,
     << <<10, 0>>, <<13, 0>>, <<9, 0>>, <<1, 0>> >>,
     << <<1, 0>>, <<9, 0>>, <<7, 0>>, <<10, 0>> >>,
     << <<5, 0>>, <<6, 0>>, <<10, 0>>, <<7, 0>>, <<1, 0>> >>,
     << <<1, 0>>, <<1, 1>>, <<2, 0>>, <<3, 0>>, <<9, 0>>, <<4, 0>> >> >>

ExampleShuffles == {DeckDealing(ExampleTops[i]) : i \in 1..ExampleDecks}

\* Outcomes of random.shuffle that are explored.
Shuffles == {DeckDealing(q) : q \in PoolOrders} \cup ExampleShuffles

\* The same for the specification with several concurrent sessions.
MultiShuffles == ExampleShuffles

\* A draw that leaves the card on the deck.
draw_from_deck_nopop(d) == [card |-> d[Len(d)], deck |-> d]

\* lines 62-67: deck.pop()
draw_from_deck(d) == [card |-> d[Len(d)], deck |-> SubSeq(d, 1, Len(d) - 1)]

(***************************************************************************)
(* server.py: the decisions of play_one_round                              *)
(***************************************************************************)
\* A handler that omits the bust check.
player_busts_never(p_total) == FALSE

\* line 127: if p_total > 21
player_busts(p_total) == p_total > 21

\* A dealer that still hits at 17.
dealer_stands_at18(d_total) == d_total >= 18

\* line 150: if d_total >= 17: break
dealer_stands(d_total) == d_total >= 17

\* A comparison that gives equal totals to the player.
decide_outcome_tie_wins(p_total, d_total) ==
  IF d_total > 21 THEN RES_WIN
  ELSE IF p_total >= d_total THEN RES_WIN
  ELSE RES_LOSS

\* lines 160-171
decide_outcome(p_total, d_total) ==
  IF d_total > 21 THEN RES_WIN
  ELSE IF p_total > d_total THEN RES_WIN
  ELSE IF p_total < d_total THEN RES_LOSS
  ELSE RES_TIE

\* send_final_result: the card every final payload carries
FillerCard == <<1, 0>>

(***************************************************************************)
(* State                                                                   *)
(***************************************************************************)
VARIABLES
  pc,            \* per connection: where its handle_client thread stands
  err,           \* per connection: the exception that ended the handler, "" if none
  inbox,         \* per connection: chunks the client wrote and the server has not read
  peer_closed,   \* per connection: the client has closed its end
  acked,         \* per connection: b"OK" was written
  num_rounds,    \* handle_client locals
  client_name,
  round_i,       \* rounds completed (the for loop's progress)
  wins, losses, ties,
  deck,          \* play_one_round locals
  player_cards,
  dealer_cards,
  hidden,        \* <<hidden_r, hidden_s>>, <<>> before it is drawn
  io,            \* per connection: socket calls of the current round, in order
  main_pc,       \* main(): "offer", "accept"
  offer_due,     \* main(): now - last_offer_time >= 1.0
  h_ranks,       \* a rank list handed to hand_value on its own
  h_server,      \* what server.hand_value returned for it
  h_client,      \* what client.hand_value returned for it
  sock_timeout,  \* per connection: the timeout conn.settimeout put in force, 0 if none
  waited,        \* per connection: seconds the pending sock.recv call has waited
  pending,       \* per connection: bytes of a client write still on their way
  m_kind,        \* the codec on its own: the kind of message packed, or how it was altered
  m_in,          \* the field values handed to pack
  m_bytes,       \* the byte string handed to the unpack functions
  m_out,         \* what each of the four unpack functions made of it
  d_phase,       \* a round under every shuffle: "deal", "player", "dealer", "done", "exhausted"
  d_player,      \* ranks of the player's cards, in ascending order
  d_dealer,      \* ranks of the dealer's cards, in ascending order
  d_left,        \* cards left on the deck, per rank
  cl_pc,         \* the client process: where main() or play_session stands
  cl_err,        \* the exception that ended the client process, "" if none
  cl_heard,      \* what main() made of the datagrams: "none", "discarded", "offer",
                 \* "offer_after_discard"
  cl_timeout,    \* the timeout tcp.settimeout put in force, 0 before a session
  cl_in,         \* bytes the server wrote and the client has not read
  cl_srv_closed, \* the server has closed its end of the connection
  cl_num_rounds, \* play_session locals
  cl_round_i,    \* rounds begun (the for loop's progress)
  cl_deal_i,     \* iterations done of the loop over the player's first two cards
  cl_wins, cl_losses, cl_ties,
  cl_player_ranks,
  cl_dealer_ranks,
  wire,          \* bytes the server wrote that have not arrived at the client
  emitted        \* Len(io[FirstConn]) when the stream last took a sendall's bytes,
                 \* -1 before it has taken b"OK"

netVars == <<inbox, peer_closed>>
sessVars == <<acked, num_rounds, client_name, round_i, wins, losses, ties>>
roundVars == <<deck, player_cards, dealer_cards, hidden>>
mainVars == <<main_pc, offer_due>>
handVars == <<h_ranks, h_server, h_client>>
timeVars == <<sock_timeout, waited, pending>>
codecVars == <<m_kind, m_in, m_bytes, m_out>>
drawVars == <<d_phase, d_player, d_dealer, d_left>>
clientVars ==
  <<cl_pc, cl_err, cl_heard, cl_timeout, cl_in, cl_srv_closed, cl_num_rounds, cl_round_i,
    cl_deal_i, cl_wins, cl_losses, cl_ties, cl_player_ranks, cl_dealer_ranks>>
wireVars == <<wire, emitted>>
auxVars == <<timeVars, codecVars, drawVars, clientVars, wireVars>>
vars == <<pc, err, io, netVars, sessVars, roundVars, mainVars, handVars, auxVars>>

Send(data) == [op |-> "send", data |-> data]
Recv(data) == [op |-> "recv", data |-> data]

Avail(c) == Len(Flatten(inbox[c]))

\* recv_exact(conn, n) once n bytes have arrived
recv_exact(c, n) == SubSeq(Flatten(inbox[c]), 1, n)

PTotal(c) == hand_value(Ranks(player_cards[c]))
DTotal(c) == hand_value(Ranks(dealer_cards[c]))

\* fresh_deck seen by rank.  card_points gives ten points to the ranks 10
\* to 13 alike and nothing else in a round reads a rank, so these sixteen
\* cards are followed as one rank, 10.
DeckRanks == 1..10

\* A deck of aces and twos only.
DeckCopiesLowOnly(r) == IF r <= 2 THEN 4 ELSE 0

\* line 58: one card per rank and suit
DeckCopies(r) == IF r = 10 THEN 16 ELSE 4

\* The four unpack functions applied to one byte string.
UnpackAll(data) ==
  [offer |-> unpack_offer(data), request |-> unpack_request(data),
   decision |-> unpack_payload_client(data), payload |-> unpack_payload_server(data)]

\* The variables a specification does not use keep these values.
InitAux ==
  /\ sock_timeout = [c \in Conns |-> 0]
  /\ waited = [c \in Conns |-> 0]
  /\ pending = [c \in Conns |-> <<>>]
  /\ m_kind = "none"
  /\ m_in = <<>>
  /\ m_bytes = <<>>
  /\ m_out = UnpackAll(<<>>)
  /\ d_phase = "deal"
  /\ d_player = <<>>
  /\ d_dealer = <<>>
  /\ d_left = [r \in DeckRanks |-> DeckCopies(r)]
  /\ cl_pc = "listen"
  /\ cl_err = ""
  /\ cl_heard = "none"
  /\ cl_timeout = 0
  /\ cl_in = <<>>
  /\ cl_srv_closed = FALSE
  /\ cl_num_rounds = 0
  /\ cl_round_i = 0
  /\ cl_deal_i = 0
  /\ cl_wins = 0
  /\ cl_losses = 0
  /\ cl_ties = 0
  /\ cl_player_ranks = <<>>
  /\ cl_dealer_ranks = <<>>
  /\ wire = <<>>
  /\ emitted = -1

InitSession ==
  /\ err = [c \in Conns |-> ""]
  /\ inbox = [c \in Conns |-> <<>>]
  /\ peer_closed = [c \in Conns |-> FALSE]
  /\ acked = [c \in Conns |-> FALSE]
  /\ num_rounds = [c \in Conns |-> 0]
  /\ client_name = [c \in Conns |-> <<>>]
  /\ round_i = [c \in Conns |-> 0]
  /\ wins = [c \in Conns |-> 0]
  /\ losses = [c \in Conns |-> 0]
  /\ ties = [c \in Conns |-> 0]
  /\ deck = [c \in Conns |-> <<>>]
  /\ player_cards = [c \in Conns |-> <<>>]
  /\ dealer_cards = [c \in Conns |-> <<>>]
  /\ hidden = [c \in Conns |-> <<>>]
  /\ io = [c \in Conns |-> <<>>]
  /\ h_ranks = <<>>
  /\ h_server = hand_value(<<>>)
  /\ h_client = client_hand_value(<<>>)
  /\ InitAux

\* One accepted connection whose handler thread has just started.
Init ==
  /\ InitSession
  /\ pc = [c \in Conns |-> IF c = FirstConn THEN "recv_request" ELSE "none"]
  /\ main_pc = "accept"
  /\ offer_due = FALSE

\* main() entering its loop: last_offer_time = 0.0, no connection yet.
InitMulti ==
  /\ InitSession
  /\ pc = [c \in Conns |-> "none"]
  /\ main_pc = "offer"
  /\ offer_due = TRUE

(***************************************************************************)
(* handle_client                                                           *)
(***************************************************************************)
\* A failure that tears down every accepted connection.
CloseEveryConnection(c, e) ==
  /\ pc' = [d \in Conns |-> IF d = c \/ pc[d] # "none" THEN "closed" ELSE pc[d]]
  /\ err' = [err EXCEPT ![c] = e]

\* except ...: print; finally: conn.close()
Close(c, e) ==
  /\ pc' = [pc EXCEPT ![c] = "closed"]
  /\ err' = [err EXCEPT ![c] = e]

Goto(c, where) ==
  /\ pc' = [pc EXCEPT ![c] = where]
  /\ err' = err

\* lines 186-187: req = recv_exact(conn, 38); unpack_request(req)
RecvRequest(c) ==
  /\ pc[c] = "recv_request"
  /\ Avail(c) >= REQUEST_SIZE
  /\ LET req == recv_exact(c, REQUEST_SIZE)
         r == unpack_request(req)
     IN /\ inbox' = [inbox EXCEPT ![c] = DropBytes(@, REQUEST_SIZE)]
        /\ IF r.ok
           THEN /\ num_rounds' = [num_rounds EXCEPT ![c] = r.num_rounds]
                /\ client_name' = [client_name EXCEPT ![c] = r.client_name]
                /\ Goto(c, "send_ack")
           ELSE /\ UNCHANGED <<num_rounds, client_name>>
                /\ Close(c, r.err)
  /\ UNCHANGED <<peer_closed, acked, round_i, wins, losses, ties, io,
                 roundVars, mainVars, handVars, auxVars>>

\* lines 191-193: conn.sendall(b"OK"); wins = losses = ties = 0
SendAck(c) ==
  /\ pc[c] = "send_ack"
  /\ acked' = [acked EXCEPT ![c] = TRUE]
  /\ wins' = [wins EXCEPT ![c] = 0]
  /\ losses' = [losses EXCEPT ![c] = 0]
  /\ ties' = [ties EXCEPT ![c] = 0]
  /\ round_i' = [round_i EXCEPT ![c] = 0]
  /\ Goto(c, "loop")
  /\ UNCHANGED <<num_rounds, client_name, io, netVars, roundVars, mainVars, handVars, auxVars>>

\* lines 204, 211-213: the for loop is exhausted; print, conn.close()
SessionEnd(c) ==
  /\ pc[c] = "loop"
  /\ round_i[c] >= num_rounds[c]
  /\ Close(c, "")
  /\ UNCHANGED <<io, netVars, sessVars, roundVars, mainVars, handVars, auxVars>>

\* A tally whose else branch is missing: ties are not counted.
TallyWinsOnly(c, result) ==
  /\ wins' = [wins EXCEPT ![c] = @ + (IF result = RES_WIN THEN 1 ELSE 0)]
  /\ losses' = [losses EXCEPT ![c] = @ + (IF result = RES_LOSS THEN 1 ELSE 0)]
  /\ ties' = ties
  /\ round_i' = [round_i EXCEPT ![c] = @ + 1]

\* lines 197-202: the tally of one returned result
Tally(c, result) ==
  /\ wins' = [wins EXCEPT ![c] = @ + (IF result = RES_WIN THEN 1 ELSE 0)]
  /\ losses' = [losses EXCEPT ![c] = @ + (IF result = RES_WIN THEN 0
                                           ELSE IF result = RES_LOSS THEN 1 ELSE 0)]
  /\ ties' = [ties EXCEPT ![c] = @ + (IF result \in {RES_WIN, RES_LOSS} THEN 0 ELSE 1)]
  /\ round_i' = [round_i EXCEPT ![c] = @ + 1]

(***************************************************************************)
(* play_one_round                                                          *)
(***************************************************************************)
\* conn.sendall(pack_payload_server(result, r, s)), then continue at `where`
SendPayload(c, result, card, where) ==
  LET m == pack_payload_server(result, card[1], card[2]) IN
  IF m.ok
  THEN /\ io' = [io EXCEPT ![c] = Append(@, Send(m.data))]
       /\ Goto(c, where)
  ELSE /\ io' = io
       /\ Close(c, m.err)

\* lines 104-107: deck = fresh_deck(); both hands empty
RoundStart(c, shuffles) ==
  /\ pc[c] = "loop"
  /\ round_i[c] < num_rounds[c]
  /\ \E d \in shuffles : deck' = [deck EXCEPT ![c] = d]
  /\ player_cards' = [player_cards EXCEPT ![c] = <<>>]
  /\ dealer_cards' = [dealer_cards EXCEPT ![c] = <<>>]
  /\ hidden' = [hidden EXCEPT ![c] = <<>>]
  /\ io' = [io EXCEPT ![c] = <<>>]
  /\ Goto(c, "deal_player")
  /\ UNCHANGED <<netVars, sessVars, mainVars, handVars, auxVars>>

\* lines 110-113, one iteration
DealPlayer(c) ==
  /\ pc[c] = "deal_player"
  /\ IF deck[c] = <<>>
     THEN Close(c, "IndexError") /\ UNCHANGED <<io, roundVars>>
     ELSE LET d == draw_from_deck(deck[c]) IN
          /\ deck' = [deck EXCEPT ![c] = d.deck]
          /\ player_cards' = [player_cards EXCEPT ![c] = Append(@, d.card)]
          /\ SendPayload(c, RES_NOT_OVER, d.card,
                         IF Len(player_cards[c]) + 1 < 2 THEN "deal_player" ELSE "deal_up")
          /\ UNCHANGED <<dealer_cards, hidden>>
  /\ UNCHANGED <<netVars, sessVars, mainVars, handVars, auxVars>>

\* lines 116-118
DealUpcard(c) ==
  /\ pc[c] = "deal_up"
  /\ IF deck[c] = <<>>
     THEN Close(c, "IndexError") /\ UNCHANGED <<io, roundVars>>
     ELSE LET d == draw_from_deck(deck[c]) IN
          /\ deck' = [deck EXCEPT ![c] = d.deck]
          /\ dealer_cards' = [dealer_cards EXCEPT ![c] = Append(@, d.card)]
          /\ SendPayload(c, RES_NOT_OVER, d.card, "deal_hidden")
          /\ UNCHANGED <<player_cards, hidden>>
  /\ UNCHANGED <<netVars, sessVars, mainVars, handVars, auxVars>>

\* A deal that sends the hidden card like the other three.
DealHiddenSent(c) ==
  /\ pc[c] = "deal_hidden"
  /\ deck[c] # <<>>
  /\ LET d == draw_from_deck(deck[c]) IN
     /\ deck' = [deck EXCEPT ![c] = d.deck]
     /\ dealer_cards' = [dealer_cards EXCEPT ![c] = Append(@, d.card)]
     /\ hidden' = [hidden EXCEPT ![c] = d.card]
     /\ SendPayload(c, RES_NOT_OVER, d.card, "player_turn")
     /\ UNCHANGED player_cards
  /\ UNCHANGED <<netVars, sessVars, mainVars, handVars, auxVars>>

\* lines 121-122: drawn and kept, nothing is sent
DealHidden(c) ==
  /\ pc[c] = "deal_hidden"
  /\ IF deck[c] = <<>>
     THEN Close(c, "IndexError") /\ UNCHANGED <<io, roundVars>>
     ELSE LET d == draw_from_deck(deck[c]) IN
          /\ deck' = [deck EXCEPT ![c] = d.deck]
          /\ dealer_cards' = [dealer_cards EXCEPT ![c] = Append(@, d.card)]
          /\ hidden' = [hidden EXCEPT ![c] = d.card]
          /\ Goto(c, "player_turn")
          /\ UNCHANGED <<io, player_cards>>
  /\ UNCHANGED <<netVars, sessVars, mainVars, handVars, auxVars>>

\* A final payload that carries another card than the filler.
FinishRoundNoFiller(c, result) ==
  /\ SendPayload(c, result, <<13, 3>>, "loop")
  /\ IF pc'[c] = "loop"
     THEN Tally(c, result)
     ELSE UNCHANGED <<wins, losses, ties, round_i>>

\* send_final_result(conn, result); return result; the caller's tally
FinishRound(c, result) ==
  /\ SendPayload(c, result, FillerCard, "loop")
  /\ IF pc'[c] = "loop"
     THEN Tally(c, result)
     ELSE UNCHANGED <<wins, losses, ties, round_i>>

\* lines 126-130: the player is bust at the top of the loop
PlayerBust(c) ==
  /\ pc[c] = "player_turn"
  /\ player_busts(PTotal(c))
  /\ FinishRound(c, RES_LOSS)
  /\ UNCHANGED <<acked, num_rounds, client_name, netVars, roundVars, mainVars, handVars, auxVars>>

\* lines 132-137: decision = unpack_payload_client(recv_exact(conn, 10))
RecvDecision(c) ==
  /\ pc[c] = "player_turn"
  /\ ~player_busts(PTotal(c))
  /\ Avail(c) >= PAYLOAD_CLIENT_SIZE
  /\ LET data == recv_exact(c, PAYLOAD_CLIENT_SIZE)
         r == unpack_payload_client(data)
     IN /\ inbox' = [inbox EXCEPT ![c] = DropBytes(@, PAYLOAD_CLIENT_SIZE)]
        /\ io' = [io EXCEPT ![c] = Append(@, Recv(data))]
        /\ IF ~r.ok THEN Close(c, r.err)
           ELSE IF r.decision = DECISION_STAND THEN Goto(c, "reveal")
           ELSE IF r.decision = DECISION_HIT THEN Goto(c, "hit")
           ELSE Goto(c, "player_turn")
  /\ UNCHANGED <<peer_closed, sessVars, roundVars, mainVars, handVars, auxVars>>

\* lines 138-140
PlayerHit(c) ==
  /\ pc[c] = "hit"
  /\ IF deck[c] = <<>>
     THEN Close(c, "IndexError") /\ UNCHANGED <<io, roundVars>>
     ELSE LET d == draw_from_deck(deck[c]) IN
          /\ deck' = [deck EXCEPT ![c] = d.deck]
          /\ player_cards' = [player_cards EXCEPT ![c] = Append(@, d.card)]
          /\ SendPayload(c, RES_NOT_OVER, d.card, "player_turn")
          /\ UNCHANGED <<dealer_cards, hidden>>
  /\ UNCHANGED <<netVars, sessVars, mainVars, handVars, auxVars>>

\* line 145: reveal the hidden card
RevealHidden(c) ==
  /\ pc[c] = "reveal"
  /\ SendPayload(c, RES_NOT_OVER, hidden[c], "dealer_turn")
  /\ UNCHANGED <<netVars, sessVars, roundVars, mainVars, handVars, auxVars>>

\* lines 148-154, one iteration that draws
DealerHit(c) ==
  /\ pc[c] = "dealer_turn"
  /\ ~dealer_stands(DTotal(c))
  /\ IF deck[c] = <<>>
     THEN Close(c, "IndexError") /\ UNCHANGED <<io, roundVars>>
     ELSE LET d == draw_from_deck(deck[c]) IN
          /\ deck' = [deck EXCEPT ![c] = d.deck]
          /\ dealer_cards' = [dealer_cards EXCEPT ![c] = Append(@, d.card)]
          /\ SendPayload(c, RES_NOT_OVER, d.card, "dealer_turn")
          /\ UNCHANGED <<player_cards, hidden>>
  /\ UNCHANGED <<netVars, sessVars, mainVars, handVars, auxVars>>

\* lines 150-171: the dealer stands; compare, send the outcome, return it
DecideOutcome(c) ==
  /\ pc[c] = "dealer_turn"
  /\ dealer_stands(DTotal(c))
  /\ FinishRound(c, decide_outcome(PTotal(c), DTotal(c)))
  /\ UNCHANGED <<acked, num_rounds, client_name, netVars, roundVars, mainVars, handVars, auxVars>>

(***************************************************************************)
(* Failures of the socket calls                                            *)
(***************************************************************************)
\* The handler is inside recv_exact and the bytes it waits for are not there.
NeededBytes(c) ==
  IF pc[c] = "recv_request" THEN REQUEST_SIZE
  ELSE IF pc[c] = "player_turn" /\ ~player_busts(PTotal(c)) THEN PAYLOAD_CLIENT_SIZE
  ELSE 0

\* The next statement of the handler is a sendall.
AtSend(c) ==
  \/ pc[c] \in {"send_ack", "deal_player", "deal_up", "hit", "reveal", "dealer_turn"}
  \/ pc[c] = "player_turn" /\ player_busts(PTotal(c))

\* conn.settimeout(10.0): sock.recv raises socket.timeout
RecvTimeout(c) ==
  /\ Avail(c) < NeededBytes(c)
  /\ Close(c, "timeout")
  /\ UNCHANGED <<io, netVars, sessVars, roundVars, mainVars, handVars, auxVars>>

\* A handler that takes the end of the stream for the end of the round: it
\* counts a loss and goes on to the next round.
RecvClosedCountsLoss(c) ==
  /\ Avail(c) < NeededBytes(c)
  /\ peer_closed[c]
  /\ IF pc[c] = "player_turn"
     THEN /\ Tally(c, RES_LOSS)
          /\ Goto(c, "loop")
          /\ UNCHANGED <<acked, num_rounds, client_name>>
     ELSE /\ Close(c, "ConnectionError")
          /\ UNCHANGED sessVars
  /\ UNCHANGED <<io, netVars, roundVars, mainVars, handVars, auxVars>>

\* recv_exact: sock.recv returns b"" -> ConnectionError
RecvClosed(c) ==
  /\ Avail(c) < NeededBytes(c)
  /\ peer_closed[c]
  /\ Close(c, "ConnectionError")
  /\ UNCHANGED <<io, netVars, sessVars, roundVars, mainVars, handVars, auxVars>>

\* sendall on a connection the peer has closed may raise (an OSError)
SendFails(c) ==
  /\ AtSend(c)
  /\ peer_closed[c]
  /\ Close(c, "OSError")
  /\ UNCHANGED <<io, netVars, sessVars, roundVars, mainVars, handVars, auxVars>>

(***************************************************************************)
(* The peer of a connection: any client, conforming or not                 *)
(***************************************************************************)
NameField == encode_fixed_name(TEAM_NAME, NAME_SIZE)

\* What a client writes first: well-formed requests, and 38-byte records
\* with a wrong cookie, a wrong type, or zero rounds.
BadCookie == <<171, 205, 220, 187>>
ZeroRoundsRequest == RawRequest(MAGIC_COOKIE, MSG_TYPE_REQUEST, 0, NameField)
BadCookieRequest == RawRequest(BadCookie, MSG_TYPE_REQUEST, 1, NameField)
BadTypeRequest == RawRequest(MAGIC_COOKIE, MSG_TYPE_PAYLOAD, 1, NameField)

ClientRequests ==
  {pack_request(n, TEAM_NAME).data : n \in 1..MaxRounds}
    \cup {ZeroRoundsRequest, BadCookieRequest, BadTypeRequest}

\* What a client writes afterwards: the two decisions, and 10-byte records
\* with another decision text (b"Hello"), a wrong cookie or a wrong type.
BadDecision == RawPayloadClient(MAGIC_COOKIE, MSG_TYPE_PAYLOAD, <<72, 101, 108, 108, 111>>)
BadCookieDecision == RawPayloadClient(BadCookie, MSG_TYPE_PAYLOAD, DECISION_STAND)
BadTypeDecision == RawPayloadClient(MAGIC_COOKIE, MSG_TYPE_REQUEST, DECISION_HIT)

ClientDecisions ==
  {pack_payload_client(DECISION_HIT).data, pack_payload_client(DECISION_STAND).data,
   BadDecision, BadCookieDecision, BadTypeDecision}

\* What the clients of concurrent sessions write.
MultiRequests == {pack_request(1, TEAM_NAME).data, ZeroRoundsRequest}
MultiDecisions ==
  {pack_payload_client(DECISION_HIT).data, pack_payload_client(DECISION_STAND).data,
   BadDecision}

Live(c) == pc[c] \notin {"none", "closed"}

\* tcp.sendall(data) on the client's side
ClientSend(c) ==
  /\ Live(c)
  /\ ~peer_closed[c]
  /\ Len(inbox[c]) < MaxInFlight
  /\ \E data \in (IF pc[c] = "recv_request" THEN ClientRequests ELSE ClientDecisions) :
       inbox' = [inbox EXCEPT ![c] = Append(@, data)]
  /\ UNCHANGED <<pc, err, io, peer_closed, sessVars, roundVars, mainVars, handVars, auxVars>>

\* A client that writes only once the handler waits for its bytes.
ClientReply(c) ==
  /\ Live(c)
  /\ ~peer_closed[c]
  /\ inbox[c] = <<>>
  /\ NeededBytes(c) > 0
  /\ \E data \in (IF pc[c] = "recv_request" THEN MultiRequests ELSE MultiDecisions) :
       inbox' = [inbox EXCEPT ![c] = Append(@, data)]
  /\ UNCHANGED <<pc, err, io, peer_closed, sessVars, roundVars, mainVars, handVars, auxVars>>

\* tcp.close() on the client's side, or the client process is gone
ClientClose(c) ==
  /\ Live(c)
  /\ ~peer_closed[c]
  /\ peer_closed' = [peer_closed EXCEPT ![c] = TRUE]
  /\ UNCHANGED <<pc, err, io, inbox, sessVars, roundVars, mainVars, handVars, auxVars>>

(***************************************************************************)
(* main(): the offer and accept loop                                       *)
(***************************************************************************)
\* lines 250-254: broadcast the offer when a second has passed
MainOffer ==
  /\ main_pc = "offer"
  /\ offer_due' = FALSE
  /\ main_pc' = "accept"
  /\ UNCHANGED <<pc, err, io, netVars, sessVars, roundVars, handVars, auxVars>>

\* lines 257-261: accept returns a connection; its handler thread starts
MainAccept(c) ==
  /\ main_pc = "accept"
  /\ pc[c] = "none"
  /\ pc' = [pc EXCEPT ![c] = "recv_request"]
  /\ main_pc' = "offer"
  /\ UNCHANGED <<err, io, offer_due, netVars, sessVars, roundVars, handVars, auxVars>>

\* lines 262-263: accept times out after 0.2 s
MainAcceptTimeout ==
  /\ main_pc = "accept"
  /\ main_pc' = "offer"
  /\ offer_due' \in {offer_due, TRUE}
  /\ UNCHANGED <<pc, err, io, netVars, sessVars, roundVars, handVars, auxVars>>

(***************************************************************************)
(* hand_value on its own                                                   *)
(***************************************************************************)
HandAppend(r) ==
  /\ Len(h_ranks) < MaxHandLen
  /\ h_ranks' = Append(h_ranks, r)
  /\ h_server' = hand_value(h_ranks')
  /\ h_client' = client_hand_value(h_ranks')
  /\ UNCHANGED <<pc, err, io, netVars, sessVars, roundVars, mainVars, auxVars>>

(***************************************************************************)
(* Specifications                                                          *)
(***************************************************************************)
Handler(c, shuffles) ==
  \/ RecvRequest(c)
  \/ SendAck(c)
  \/ RoundStart(c, shuffles)
  \/ DealPlayer(c)
  \/ DealUpcard(c)
  \/ DealHidden(c)
  \/ PlayerBust(c)
  \/ RecvDecision(c)
  \/ PlayerHit(c)
  \/ RevealHidden(c)
  \/ DealerHit(c)
  \/ DecideOutcome(c)
  \/ SessionEnd(c)
  \/ RecvTimeout(c)
  \/ RecvClosed(c)
  \/ SendFails(c)

Client(c) == ClientSend(c) \/ ClientClose(c)

\* One session: a handler thread and its peer.
Next == Handler(FirstConn, Shuffles) \/ Client(FirstConn)

Spec == Init /\ [][Next]_vars

\* The server: main() and one handler thread per accepted connection.
NextMulti ==
  \/ MainOffer
  \/ MainAcceptTimeout
  \/ \E c \in Conns : MainAccept(c)
  \/ \E c \in Conns : Handler(c, MultiShuffles)
  \/ \E c \in Conns : ClientReply(c)
  \/ \E c \in Conns : ClientClose(c)

SpecMulti == InitMulti /\ [][NextMulti]_vars

\* hand_value applied to every rank list up to MaxHandLen.
NextHand == \E r \in 1..13 : HandAppend(r)

SpecHand == Init /\ [][NextHand]_vars

(***************************************************************************)
(* The reads of handle_client against the clock                            *)
(*                                                                         *)
(* conn.settimeout(t) bounds every later sock.recv call on conn: a call    *)
(* that has waited t seconds without a byte raises socket.timeout.  A call *)
(* that receives bytes returns them, and recv_exact calls sock.recv again  *)
(* for the rest, with the full t to wait.  One step of time is a second.   *)
(***************************************************************************)
\* recv_exact is inside sock.recv: fewer bytes have arrived than it wants.
Blocked(c) == NeededBytes(c) > 0 /\ Avail(c) < NeededBytes(c)

\* A handler that never calls conn.settimeout.
HandlerStartNoTimeout(c) ==
  /\ pc[c] = "start"
  /\ Goto(c, "recv_request")
  /\ UNCHANGED <<io, netVars, sessVars, roundVars, mainVars, handVars, auxVars>>

\* line 183: conn.settimeout(10.0)
HandlerStart(c) ==
  /\ pc[c] = "start"
  /\ sock_timeout' = [sock_timeout EXCEPT ![c] = SERVER_TIMEOUT]
  /\ Goto(c, "recv_request")
  /\ UNCHANGED <<io, netVars, sessVars, roundVars, mainVars, handVars, waited, pending, codecVars, drawVars, clientVars, wireVars>>

\* A second passes while sock.recv waits.  Without a timeout the socket
\* blocks; the clock is followed up to MaxWait seconds.
Tick(c) ==
  /\ pc[c] # "closed"
  /\ Blocked(c)
  /\ IF sock_timeout[c] = 0 THEN waited[c] < MaxWait ELSE waited[c] < sock_timeout[c]
  /\ waited' = [waited EXCEPT ![c] = @ + 1]
  /\ UNCHANGED <<pc, err, io, netVars, sessVars, roundVars, mainVars, handVars,
                 sock_timeout, pending, codecVars, drawVars, clientVars, wireVars>>

\* sock.recv raises socket.timeout; lines 206-207, 211-213
TimedOut(c) ==
  /\ pc[c] # "closed"
  /\ Blocked(c)
  /\ sock_timeout[c] > 0
  /\ waited[c] >= sock_timeout[c]
  /\ Close(c, "timeout")
  /\ waited' = [waited EXCEPT ![c] = 0]
  /\ UNCHANGED <<io, netVars, sessVars, roundVars, mainVars, handVars,
                 sock_timeout, pending, codecVars, drawVars, clientVars, wireVars>>

\* The client hands its next message to its socket.
ClientBegin(c) ==
  /\ Live(c)
  /\ ~peer_closed[c]
  /\ Blocked(c)
  /\ Avail(c) = 0
  /\ pending[c] = <<>>
  /\ \E data \in (IF pc[c] = "recv_request" THEN MultiRequests ELSE MultiDecisions) :
       pending' = [pending EXCEPT ![c] = data]
  /\ UNCHANGED <<pc, err, io, netVars, sessVars, roundVars, mainVars, handVars,
                 sock_timeout, waited, codecVars, drawVars, clientVars, wireVars>>

\* Some of these bytes arrive, one of them or all that are left: the
\* pending sock.recv returns them and the wait starts anew.
Deliver(c) ==
  /\ Live(c)
  /\ pending[c] # <<>>
  /\ \E k \in {1, Len(pending[c])} :
       /\ inbox' = [inbox EXCEPT ![c] = <<Flatten(@) \o SubSeq(pending[c], 1, k)>>]
       /\ pending' = [pending EXCEPT ![c] = SubSeq(@, k + 1, Len(@))]
  /\ waited' = [waited EXCEPT ![c] = 0]
  /\ UNCHANGED <<pc, err, io, peer_closed, sessVars, roundVars, mainVars, handVars,
                 sock_timeout, codecVars, drawVars, clientVars, wireVars>>

\* handle_client with every socket call on the clock.
TimedHandler(c) ==
  \/ HandlerStart(c)
  \/ RecvRequest(c)
  \/ SendAck(c)
  \/ RoundStart(c, MultiShuffles)
  \/ DealPlayer(c)
  \/ DealUpcard(c)
  \/ DealHidden(c)
  \/ PlayerBust(c)
  \/ RecvDecision(c)
  \/ PlayerHit(c)
  \/ RevealHidden(c)
  \/ DealerHit(c)
  \/ DecideOutcome(c)
  \/ SessionEnd(c)
  \/ TimedOut(c)
  \/ RecvClosed(c)
  \/ SendFails(c)

InitTimed ==
  /\ InitSession
  /\ pc = [c \in Conns |-> IF c = FirstConn THEN "start" ELSE "none"]
  /\ main_pc = "accept"
  /\ offer_due = FALSE

NextTimed ==
  \/ TimedHandler(FirstConn)
  \/ Tick(FirstConn)
  \/ ClientBegin(FirstConn)
  \/ Deliver(FirstConn)
  \/ ClientClose(FirstConn)

SpecTimed == InitTimed /\ [][NextTimed]_vars

(***************************************************************************)
(* main() interrupted                                                      *)
(*                                                                         *)
(* KeyboardInterrupt is the one way out of the loop of main(): break, both *)
(* sockets closed, main() returns and the interpreter exits.  The handler  *)
(* threads are started with daemon=True (line 260); a daemon thread is     *)
(* stopped where it stands when the main thread ends.                      *)
(***************************************************************************)
\* lines 265-272, 260
MainStop ==
  /\ main_pc \in {"offer", "accept"}
  /\ main_pc' = "exited"
  /\ pc' = [c \in Conns |-> IF pc[c] \in {"none", "closed"} THEN pc[c] ELSE "killed"]
  /\ UNCHANGED <<err, io, offer_due, netVars, sessVars, roundVars, handVars, auxVars>>

NextStop ==
  \/ MainOffer
  \/ MainAcceptTimeout
  \/ MainStop
  \/ \E c \in Conns : MainAccept(c)
  \/ \E c \in Conns : Handler(c, MultiShuffles)
  \/ \E c \in Conns : ClientReply(c)
  \/ \E c \in Conns : ClientClose(c)

SpecStop == InitMulti /\ [][NextStop]_vars

(***************************************************************************)
(* protocol.py on its own: pack, then unpack; unpack of altered bytes      *)
(***************************************************************************)
\* Names handed to pack_offer and pack_request: the team name, the empty
\* name, two-byte and three-byte characters, a name of exactly 32 bytes,
\* names of 33 bytes and of 16 three-byte characters, a name whose 32nd byte
\* is the first of a two-byte character, and a name holding U+0000.
Repeat(x, n) == [i \in 1..n |-> x]

ExampleNames ==
  {TEAM_NAME, <<>>, <<233, 116, 233>>, <<8364, 65>>, Repeat(97, 32), Repeat(97, 33),
   Repeat(8364, 16), Repeat(97, 31) \o <<233>>, <<65, 0, 66>>}

\* Ports and round counts handed to pack, in range and out of range.
ExamplePorts == {0, 1, 255, 256, 13122, 65535, 65536}
ExampleRounds == {0, 1, 2, 127, 255, 256}

\* Bytes written over one of the first five bytes of a packed message.
ExampleBytes == {0, MSG_TYPE_OFFER, MSG_TYPE_REQUEST, MSG_TYPE_PAYLOAD, 171, 255}

Packed(kind, fields, p) ==
  /\ m_kind = "none"
  /\ p.ok
  /\ m_kind' = kind
  /\ m_in' = fields
  /\ m_bytes' = p.data
  /\ m_out' = UnpackAll(p.data)
  /\ UNCHANGED <<pc, err, io, netVars, sessVars, roundVars, mainVars, handVars, timeVars, drawVars, clientVars, wireVars>>

PackOffer(port, name) ==
  Packed("offer", [port |-> port, name |-> name], pack_offer(port, name))

PackRequest(n, name) ==
  Packed("request", [num_rounds |-> n, client_name |-> name], pack_request(n, name))

PackDecision(d) == Packed("decision", [decision |-> d], pack_payload_client(d))

PackPayload(result, rank, suit) ==
  Packed("payload", [result |-> result, rank |-> rank, suit |-> suit],
         pack_payload_server(result, rank, suit))

\* pack refuses fields outside their range.
PackRaises ==
  /\ m_kind = "none"
  /\ \/ \E port \in ExamplePorts : ~pack_offer(port, TEAM_NAME).ok
     \/ \E n \in ExampleRounds : ~pack_request(n, TEAM_NAME).ok
     \/ ~pack_payload_client(<<72, 101, 108, 108, 111>>).ok
     \/ \E rank \in {0, 14} : ~pack_payload_server(RES_WIN, rank, 0).ok
  /\ m_kind' = "raised"
  /\ UNCHANGED <<pc, err, io, netVars, sessVars, roundVars, mainVars, handVars, timeVars, drawVars, clientVars,
                 wireVars, m_in, m_bytes, m_out>>

Altered(kind, data) ==
  /\ m_kind' = kind
  /\ m_in' = <<>>
  /\ m_bytes' = data
  /\ m_out' = UnpackAll(data)
  /\ UNCHANGED <<pc, err, io, netVars, sessVars, roundVars, mainVars, handVars, timeVars, drawVars, clientVars, wireVars>>

\* One byte of the cookie or the type byte is overwritten.
Overwrite(i, b) ==
  /\ m_kind \in {"offer", "request", "decision", "payload"}
  /\ m_bytes[i] # b
  /\ Altered("overwritten", [m_bytes EXCEPT ![i] = b])

\* The last byte is cut off, again and again.
Shorten ==
  /\ m_kind \in {"offer", "request", "decision", "payload", "shortened"}
  /\ m_bytes # <<>>
  /\ Altered("shortened", SubSeq(m_bytes, 1, Len(m_bytes) - 1))

\* A byte is added at the end.
Lengthen ==
  /\ m_kind \in {"offer", "request", "decision", "payload"}
  /\ Altered("lengthened", Append(m_bytes, 0))

NextCodec ==
  \/ \E port \in ExamplePorts, name \in ExampleNames : PackOffer(port, name)
  \/ \E n \in ExampleRounds, name \in ExampleNames : PackRequest(n, name)
  \/ \E d \in {DECISION_HIT, DECISION_STAND} : PackDecision(d)
  \/ \E result \in 0..3, rank \in 1..13, suit \in 0..3 : PackPayload(result, rank, suit)
  \/ PackRaises
  \/ \E i \in 1..5, b \in ExampleBytes : Overwrite(i, b)
  \/ Shorten
  \/ Lengthen

SpecCodec == Init /\ [][NextCodec]_vars

(***************************************************************************)
(* play_one_round under every shuffle and every sequence of decisions      *)
(*                                                                         *)
(* random.shuffle can leave the deck in any order, so the card a draw pops *)
(* can be any card not drawn before.  The hands are followed as the ranks  *)
(* they hold, in ascending order: hand_value does not depend on the order. *)
(***************************************************************************)
RECURSIVE InsertRank(_, _)
InsertRank(q, r) ==
  IF q = <<>> \/ r <= Head(q) THEN <<r>> \o q
  ELSE <<Head(q)>> \o InsertRank(Tail(q), r)

DeckLeft == \E r \in DeckRanks : d_left[r] > 0

\* draw_from_deck: any card that is left, or IndexError from deck.pop()
\* on an empty deck, which ends the round.
Draw(toPlayer, phase) ==
  IF DeckLeft
  THEN \E r \in DeckRanks :
         /\ d_left[r] > 0
         /\ d_left' = [d_left EXCEPT ![r] = @ - 1]
         /\ d_player' = IF toPlayer THEN InsertRank(d_player, r) ELSE d_player
         /\ d_dealer' = IF toPlayer THEN d_dealer ELSE InsertRank(d_dealer, r)
         /\ d_phase' = phase
  ELSE /\ d_phase' = "exhausted"
       /\ UNCHANGED <<d_player, d_dealer, d_left>>

\* play_one_round returns (or raises); the next call starts with a fresh
\* deck and empty hands, lines 104-107
DrawReturn ==
  /\ d_phase' = "deal"
  /\ d_player' = <<>>
  /\ d_dealer' = <<>>
  /\ d_left' = [r \in DeckRanks |-> DeckCopies(r)]

\* lines 110-112: the player's two cards
DrawDealPlayer ==
  /\ d_phase = "deal"
  /\ Len(d_player) < 2
  /\ Draw(TRUE, "deal")
  /\ UNCHANGED <<pc, err, io, netVars, sessVars, roundVars, mainVars, handVars,
                 timeVars, codecVars, clientVars, wireVars>>

\* lines 116-122: the upcard and the hidden card
DrawDealDealer ==
  /\ d_phase = "deal"
  /\ Len(d_player) = 2
  /\ Draw(FALSE, IF Len(d_dealer) = 1 THEN "player" ELSE "deal")
  /\ UNCHANGED <<pc, err, io, netVars, sessVars, roundVars, mainVars, handVars,
                 timeVars, codecVars, clientVars, wireVars>>

\* lines 126-130: bust
DrawBust ==
  /\ d_phase = "player"
  /\ player_busts(hand_value(d_player))
  /\ DrawReturn
  /\ UNCHANGED <<pc, err, io, netVars, sessVars, roundVars, mainVars, handVars,
                 timeVars, codecVars, clientVars, wireVars>>

\* lines 132-135: the client's decision is Stand
DrawStand ==
  /\ d_phase = "player"
  /\ ~player_busts(hand_value(d_player))
  /\ d_phase' = "dealer"
  /\ UNCHANGED <<pc, err, io, netVars, sessVars, roundVars, mainVars, handVars,
                 timeVars, codecVars, clientVars, wireVars, d_player, d_dealer, d_left>>

\* lines 137-141: the client's decision is Hit
DrawHit ==
  /\ d_phase = "player"
  /\ ~player_busts(hand_value(d_player))
  /\ Draw(TRUE, "player")
  /\ UNCHANGED <<pc, err, io, netVars, sessVars, roundVars, mainVars, handVars,
                 timeVars, codecVars, clientVars, wireVars>>

\* lines 148-154: a card for the dealer
DrawDealer ==
  /\ d_phase = "dealer"
  /\ ~dealer_stands(hand_value(d_dealer))
  /\ Draw(FALSE, "dealer")
  /\ UNCHANGED <<pc, err, io, netVars, sessVars, roundVars, mainVars, handVars,
                 timeVars, codecVars, clientVars, wireVars>>

\* lines 150-171: the dealer stands, the round returns its outcome
DrawDealerStands ==
  /\ d_phase = "dealer"
  /\ dealer_stands(hand_value(d_dealer))
  /\ DrawReturn
  /\ UNCHANGED <<pc, err, io, netVars, sessVars, roundVars, mainVars, handVars,
                 timeVars, codecVars, clientVars, wireVars>>

NextDraw ==
  \/ DrawDealPlayer
  \/ DrawDealDealer
  \/ DrawBust
  \/ DrawStand
  \/ DrawHit
  \/ DrawDealer
  \/ DrawDealerStands

SpecDraw == Init /\ [][NextDraw]_vars

(***************************************************************************)
(* client.py: main() and play_session                                      *)
(*                                                                         *)
(* One client process.  Its connection is FirstConn: what it sends goes to *)
(* inbox[FirstConn], what it reads comes from cl_in.  An exception that    *)
(* no except clause catches ends the process: cl_pc = "exited".            *)
(***************************************************************************)
notClientVars ==
  <<pc, err, io, sessVars, roundVars, mainVars, handVars, timeVars, codecVars, drawVars,
    wireVars>>

\* Datagrams on the offer port: the server's offer, an offer with a wrong
\* cookie, one with the type of a request, one a byte short, one a byte
\* long, and an empty datagram.
GoodOffer == pack_offer(OFFER_UDP_PORT, TEAM_NAME).data

Datagrams ==
  {GoodOffer,
   RawOffer(BadCookie, MSG_TYPE_OFFER, OFFER_UDP_PORT, NameField),
   RawOffer(MAGIC_COOKIE, MSG_TYPE_REQUEST, OFFER_UDP_PORT, NameField),
   SubSeq(GoodOffer, 1, OFFER_SIZE - 1),
   Append(GoodOffer, 0),
   <<>>}

\* What the server end writes when the client waits for the acknowledgment:
\* b"OK", alone or followed at once by the first card.
AckWrites ==
  {<<79, 75>>, <<79, 75>> \o pack_payload_server(RES_NOT_OVER, 10, 0).data}

\* What it writes when the client waits for a payload: cards, outcomes, and
\* nine bytes with a wrong cookie.
CardWrites == {pack_payload_server(RES_NOT_OVER, r, 0).data : r \in {1, 10}}

PayloadWrites ==
  {pack_payload_server(res, 1, 0).data : res \in {RES_WIN, RES_LOSS, RES_TIE}}
    \cup {BadCookie \o <<MSG_TYPE_PAYLOAD, RES_NOT_OVER, 0, 5, 0>>}

\* The statements at which play_session waits for the server's bytes.
ClientReads == {"recv_ack", "deal", "upcard", "hit_reply", "bust_wait", "dealer_wait"}
ClientInSession == cl_pc \in ClientReads \cup {"send_request", "round", "player_turn"}

\* lines 198-202, then line 243: the session is over, tcp.close(), and
\* main() is back at udp.recvfrom
ClientReturns ==
  /\ cl_pc' = "listen"
  /\ cl_err' = cl_err
  /\ peer_closed' = [peer_closed EXCEPT ![FirstConn] = TRUE]

\* An exception leaves play_session through its finally clause and main()
\* through its loop, whose only handler is for KeyboardInterrupt.
ClientDies(e) ==
  /\ cl_pc' = "exited"
  /\ cl_err' = e
  /\ peer_closed' = [peer_closed EXCEPT ![FirstConn] = TRUE]

\* A tally that counts every outcome as a tie.
ClientTallyTiesOnly(res) ==
  /\ cl_wins' = cl_wins
  /\ cl_losses' = cl_losses
  /\ cl_ties' = cl_ties + 1

\* if res == RES_WIN ... elif res == RES_LOSS ... else: ties += 1
ClientTally(res) ==
  /\ cl_wins' = cl_wins + (IF res = RES_WIN THEN 1 ELSE 0)
  /\ cl_losses' = cl_losses + (IF res # RES_WIN /\ res = RES_LOSS THEN 1 ELSE 0)
  /\ cl_ties' = cl_ties + (IF res \notin {RES_WIN, RES_LOSS} THEN 1 ELSE 0)

\* lines 228-241: a datagram arrives; a malformed one is dropped, an offer
\* starts a session for the number of rounds the user enters
ClientListen(data) ==
  /\ cl_pc = "listen"
  /\ LET o == unpack_offer(data) IN
     IF ~o.ok
     THEN /\ cl_heard' = "discarded"
          /\ UNCHANGED <<netVars, cl_pc, cl_err, cl_timeout, cl_in, cl_srv_closed,
                         cl_num_rounds, cl_round_i, cl_deal_i, cl_wins, cl_losses, cl_ties,
                         cl_player_ranks, cl_dealer_ranks>>
     ELSE /\ cl_heard' = IF cl_heard \in {"none", "offer"}
                          THEN "offer" ELSE "offer_after_discard"
          /\ \E n \in 1..MaxRounds : cl_num_rounds' = n
          /\ cl_pc' = "connect"
          /\ cl_timeout' = CLIENT_CONNECT_TIMEOUT
          /\ inbox' = [inbox EXCEPT ![FirstConn] = <<>>]
          /\ peer_closed' = [peer_closed EXCEPT ![FirstConn] = FALSE]
          /\ cl_in' = <<>>
          /\ cl_srv_closed' = FALSE
          /\ cl_round_i' = 0
          /\ cl_deal_i' = 0
          /\ cl_wins' = 0
          /\ cl_losses' = 0
          /\ cl_ties' = 0
          /\ cl_player_ranks' = <<>>
          /\ cl_dealer_ranks' = <<>>
          /\ cl_err' = cl_err
  /\ UNCHANGED notClientVars

\* lines 57-60: tcp.connect returns
ClientConnect ==
  /\ cl_pc = "connect"
  /\ cl_pc' = "send_request"
  /\ cl_timeout' = CLIENT_TIMEOUT
  /\ UNCHANGED <<notClientVars, netVars, cl_err, cl_heard, cl_in, cl_srv_closed,
                 cl_num_rounds, cl_round_i, cl_deal_i, cl_wins, cl_losses, cl_ties,
                 cl_player_ranks, cl_dealer_ranks>>

\* line 57: tcp.connect raises, refused or timed out after 3 s; the line is
\* outside the try of line 62
ClientConnectFails ==
  /\ cl_pc = "connect"
  /\ \E e \in {"ConnectionRefusedError", "timeout"} : ClientDies(e)
  /\ UNCHANGED <<notClientVars, inbox, cl_heard, cl_timeout, cl_in, cl_srv_closed,
                 cl_num_rounds, cl_round_i, cl_deal_i, cl_wins, cl_losses, cl_ties,
                 cl_player_ranks, cl_dealer_ranks>>

\* line 64: tcp.sendall(pack_request(num_rounds, TEAM_NAME))
ClientSendRequest ==
  /\ cl_pc = "send_request"
  /\ LET m == pack_request(cl_num_rounds, TEAM_NAME) IN
     IF m.ok
     THEN /\ inbox' = [inbox EXCEPT ![FirstConn] = Append(@, m.data)]
          /\ cl_pc' = "recv_ack"
          /\ UNCHANGED <<cl_err, peer_closed>>
     ELSE /\ ClientDies(m.err)
          /\ inbox' = inbox
  /\ UNCHANGED <<notClientVars, cl_heard, cl_timeout, cl_in, cl_srv_closed,
                 cl_num_rounds, cl_round_i, cl_deal_i, cl_wins, cl_losses, cl_ties,
                 cl_player_ranks, cl_dealer_ranks>>

\* lines 67-70: resp = tcp.recv(64) takes what has arrived, up to 64 bytes,
\* b"" if the server has closed; wins = losses = ties = 0
ClientRecvAck ==
  /\ cl_pc = "recv_ack"
  /\ cl_in # <<>> \/ cl_srv_closed
  /\ cl_in' = SubSeq(cl_in, 65, Len(cl_in))
  /\ cl_wins' = 0
  /\ cl_losses' = 0
  /\ cl_ties' = 0
  /\ cl_pc' = "round"
  /\ UNCHANGED <<notClientVars, netVars, cl_err, cl_heard, cl_timeout, cl_srv_closed,
                 cl_num_rounds, cl_round_i, cl_deal_i, cl_player_ranks, cl_dealer_ranks>>

\* lines 72-76: the next round begins; lines 189-192: or the loop is done
ClientNextRound ==
  /\ cl_pc = "round"
  /\ IF cl_round_i < cl_num_rounds
     THEN /\ cl_round_i' = cl_round_i + 1
          /\ cl_player_ranks' = <<>>
          /\ cl_dealer_ranks' = <<>>
          /\ cl_deal_i' = 0
          /\ cl_pc' = "deal"
          /\ UNCHANGED <<cl_err, peer_closed>>
     ELSE /\ ClientReturns
          /\ UNCHANGED <<cl_round_i, cl_player_ranks, cl_dealer_ranks, cl_deal_i>>
  /\ UNCHANGED <<notClientVars, inbox, cl_heard, cl_timeout, cl_in, cl_srv_closed,
                 cl_num_rounds, cl_wins, cl_losses, cl_ties>>

\* msg = recv_exact(tcp, 9); result, rank, suit = unpack_payload_server(msg):
\* the nine bytes are taken off the stream; a ValueError ends the process
ClientGot ==
  /\ cl_pc \in ClientReads \ {"recv_ack"}
  /\ Len(cl_in) >= PAYLOAD_SERVER_SIZE
  /\ cl_in' = SubSeq(cl_in, PAYLOAD_SERVER_SIZE + 1, Len(cl_in))

ClientMsg == unpack_payload_server(SubSeq(cl_in, 1, PAYLOAD_SERVER_SIZE))

\* lines 79-86: one of the player's first two cards; a result other than
\* NOT_OVER breaks out of this loop only
ClientDealCard ==
  /\ cl_pc = "deal"
  /\ ClientGot
  /\ IF ~ClientMsg.ok
     THEN ClientDies(ClientMsg.err) /\ UNCHANGED <<cl_player_ranks, cl_deal_i>>
     ELSE /\ UNCHANGED <<cl_err, peer_closed>>
          /\ IF ClientMsg.result # RES_NOT_OVER
             THEN cl_pc' = "upcard" /\ UNCHANGED <<cl_player_ranks, cl_deal_i>>
             ELSE /\ cl_player_ranks' = Append(cl_player_ranks, ClientMsg.rank)
                  /\ cl_deal_i' = cl_deal_i + 1
                  /\ cl_pc' = IF cl_deal_i + 1 < 2 THEN "deal" ELSE "upcard"
  /\ UNCHANGED <<notClientVars, inbox, cl_heard, cl_timeout, cl_srv_closed,
                 cl_num_rounds, cl_round_i, cl_wins, cl_losses, cl_ties, cl_dealer_ranks>>

\* lines 89-103: the dealer's upcard, or an outcome that ends the round
ClientUpcard ==
  /\ cl_pc = "upcard"
  /\ ClientGot
  /\ IF ~ClientMsg.ok
     THEN ClientDies(ClientMsg.err) /\ UNCHANGED <<cl_dealer_ranks, cl_wins, cl_losses, cl_ties>>
     ELSE /\ UNCHANGED <<cl_err, peer_closed>>
          /\ IF ClientMsg.result # RES_NOT_OVER
             THEN ClientTally(ClientMsg.result) /\ cl_pc' = "round" /\ UNCHANGED cl_dealer_ranks
             ELSE /\ cl_dealer_ranks' = Append(cl_dealer_ranks, ClientMsg.rank)
                  /\ cl_pc' = "player_turn"
                  /\ UNCHANGED <<cl_wins, cl_losses, cl_ties>>
  /\ UNCHANGED <<notClientVars, inbox, cl_heard, cl_timeout, cl_srv_closed,
                 cl_num_rounds, cl_round_i, cl_deal_i, cl_player_ranks>>

\* lines 107-128, 163-165: the top of the player loop.  Above 21 the client
\* waits for the outcome; otherwise the user's h or s is sent as Hittt or
\* Stand.  Any other input prints a message and changes nothing.
ClientDecide(choice) ==
  /\ cl_pc = "player_turn"
  /\ IF client_hand_value(cl_player_ranks) > 21
     THEN cl_pc' = "bust_wait" /\ inbox' = inbox
     ELSE /\ inbox' = [inbox EXCEPT ![FirstConn] =
                         Append(@, pack_payload_client(choice).data)]
          /\ cl_pc' = IF choice = DECISION_HIT THEN "hit_reply" ELSE "dealer_wait"
  /\ UNCHANGED <<notClientVars, peer_closed, cl_err, cl_heard, cl_timeout, cl_in,
                 cl_srv_closed, cl_num_rounds, cl_round_i, cl_deal_i, cl_wins, cl_losses,
                 cl_ties, cl_player_ranks, cl_dealer_ranks>>

\* lines 130-161: the reply to Hittt
ClientHitReply ==
  /\ cl_pc = "hit_reply"
  /\ ClientGot
  /\ IF ~ClientMsg.ok
     THEN ClientDies(ClientMsg.err) /\ UNCHANGED <<cl_player_ranks, cl_wins, cl_losses, cl_ties>>
     ELSE /\ UNCHANGED <<cl_err, peer_closed>>
          /\ IF ClientMsg.result = RES_NOT_OVER
             THEN /\ cl_player_ranks' = Append(cl_player_ranks, ClientMsg.rank)
                  /\ cl_pc' = IF client_hand_value(cl_player_ranks') > 21
                              THEN "bust_wait" ELSE "player_turn"
                  /\ UNCHANGED <<cl_wins, cl_losses, cl_ties>>
             ELSE ClientTally(ClientMsg.result) /\ cl_pc' = "round" /\ UNCHANGED cl_player_ranks
  /\ UNCHANGED <<notClientVars, inbox, cl_heard, cl_timeout, cl_srv_closed,
                 cl_num_rounds, cl_round_i, cl_deal_i, cl_dealer_ranks>>

\* lines 111-120, 140-149: the outcome after a bust
ClientBustWait ==
  /\ cl_pc = "bust_wait"
  /\ ClientGot
  /\ IF ~ClientMsg.ok
     THEN ClientDies(ClientMsg.err) /\ UNCHANGED <<cl_wins, cl_losses, cl_ties>>
     ELSE /\ UNCHANGED <<cl_err, peer_closed>>
          /\ ClientTally(ClientMsg.result)
          /\ cl_pc' = "round"
  /\ UNCHANGED <<notClientVars, inbox, cl_heard, cl_timeout, cl_srv_closed,
                 cl_num_rounds, cl_round_i, cl_deal_i, cl_player_ranks, cl_dealer_ranks>>

\* lines 168-185: the dealer's cards after Stand, then the outcome
ClientDealerWait ==
  /\ cl_pc = "dealer_wait"
  /\ ClientGot
  /\ IF ~ClientMsg.ok
     THEN ClientDies(ClientMsg.err) /\ UNCHANGED <<cl_dealer_ranks, cl_wins, cl_losses, cl_ties>>
     ELSE /\ UNCHANGED <<cl_err, peer_closed>>
          /\ IF ClientMsg.result = RES_NOT_OVER
             THEN /\ cl_dealer_ranks' = Append(cl_dealer_ranks, ClientMsg.rank)
                  /\ cl_pc' = "dealer_wait"
                  /\ UNCHANGED <<cl_wins, cl_losses, cl_ties>>
             ELSE ClientTally(ClientMsg.result) /\ cl_pc' = "round" /\ UNCHANGED cl_dealer_ranks
  /\ UNCHANGED <<notClientVars, inbox, cl_heard, cl_timeout, cl_srv_closed,
                 cl_num_rounds, cl_round_i, cl_deal_i, cl_player_ranks>>

\* The bytes a read waits for have not all arrived.
ClientStarved ==
  \/ cl_pc = "recv_ack" /\ cl_in = <<>>
  \/ cl_pc \in ClientReads \ {"recv_ack"} /\ Len(cl_in) < PAYLOAD_SERVER_SIZE

\* lines 194-196: socket.timeout after 8 s is caught; return
ClientReadTimeout ==
  /\ ClientStarved
  /\ ClientReturns
  /\ UNCHANGED <<notClientVars, inbox, cl_heard, cl_timeout, cl_in, cl_srv_closed,
                 cl_num_rounds, cl_round_i, cl_deal_i, cl_wins, cl_losses, cl_ties,
                 cl_player_ranks, cl_dealer_ranks>>

\* recv_exact: sock.recv returns b"" -> ConnectionError, which line 194
\* does not catch
ClientReadClosed ==
  /\ cl_pc \in ClientReads \ {"recv_ack"}
  /\ ClientStarved
  /\ cl_srv_closed
  /\ ClientDies("ConnectionError")
  /\ UNCHANGED <<notClientVars, inbox, cl_heard, cl_timeout, cl_in, cl_srv_closed,
                 cl_num_rounds, cl_round_i, cl_deal_i, cl_wins, cl_losses, cl_ties,
                 cl_player_ranks, cl_dealer_ranks>>

\* tcp.sendall on a connection the server has closed raises an OSError
ClientSendFails ==
  /\ \/ cl_pc = "send_request"
     \/ cl_pc = "player_turn" /\ client_hand_value(cl_player_ranks) <= 21
  /\ cl_srv_closed
  /\ ClientDies("OSError")
  /\ UNCHANGED <<notClientVars, inbox, cl_heard, cl_timeout, cl_in, cl_srv_closed,
                 cl_num_rounds, cl_round_i, cl_deal_i, cl_wins, cl_losses, cl_ties,
                 cl_player_ranks, cl_dealer_ranks>>

\* The server end has read what the client sent and writes what the client
\* waits for; it deals no more than MaxHandLen cards to a hand.
SrvWrite ==
  /\ ClientStarved
  /\ cl_in = <<>>
  /\ ~cl_srv_closed
  /\ \E data \in (IF cl_pc = "recv_ack" THEN AckWrites
                   ELSE IF /\ Len(cl_player_ranks) < MaxHandLen
                           /\ Len(cl_dealer_ranks) < MaxHandLen
                        THEN CardWrites \cup PayloadWrites
                        ELSE PayloadWrites) : cl_in' = data
  /\ inbox' = [inbox EXCEPT ![FirstConn] = <<>>]
  /\ peer_closed' = peer_closed
  /\ UNCHANGED <<notClientVars, cl_pc, cl_err, cl_heard, cl_timeout, cl_srv_closed,
                 cl_num_rounds, cl_round_i, cl_deal_i, cl_wins, cl_losses, cl_ties,
                 cl_player_ranks, cl_dealer_ranks>>

\* The server end closes the connection.
SrvClose ==
  /\ ClientInSession
  /\ ~cl_srv_closed
  /\ cl_srv_closed' = TRUE
  /\ UNCHANGED <<notClientVars, netVars, cl_pc, cl_err, cl_heard, cl_timeout, cl_in,
                 cl_num_rounds, cl_round_i, cl_deal_i, cl_wins, cl_losses, cl_ties,
                 cl_player_ranks, cl_dealer_ranks>>

NextClient ==
  \/ \E data \in Datagrams : ClientListen(data)
  \/ ClientConnect
  \/ ClientConnectFails
  \/ ClientSendRequest
  \/ ClientRecvAck
  \/ ClientNextRound
  \/ ClientDealCard
  \/ ClientUpcard
  \/ \E choice \in {DECISION_HIT, DECISION_STAND} : ClientDecide(choice)
  \/ ClientHitReply
  \/ ClientBustWait
  \/ ClientDealerWait
  \/ ClientReadTimeout
  \/ ClientReadClosed
  \/ ClientSendFails
  \/ SrvWrite
  \/ SrvClose

\* The client process with any server at the other end.
SpecClient == InitMulti /\ [][NextClient]_vars

(***************************************************************************)
(* One session end to end: the handler thread of FirstConn and the client  *)
(* process, joined by the two byte streams of their TCP connection.        *)
(*                                                                         *)
(* Client to server: tcp.sendall appends to inbox[FirstConn].  Server to   *)
(* client: the bytes of a conn.sendall go to wire and from wire, in order  *)
(* and in pieces of any size, to cl_in.  The user answers in time and the  *)
(* network does not fail: a read times out only when the bytes it waits    *)
(* for will never come.                                                    *)
(***************************************************************************)
\* The bytes of the handler's last sendall, until the stream has taken them.
SrvUnsent ==
  LET log == io[FirstConn] IN
  IF emitted < 0
  THEN IF acked[FirstConn] THEN <<79, 75>> ELSE <<>>
  ELSE IF log # <<>> /\ Len(log) # emitted /\ log[Len(log)].op = "send"
       THEN log[Len(log)].data
       ELSE <<>>

\* No sendall is under way.
Quiet == SrvUnsent = <<>>

\* conn.sendall returns: its bytes are on the stream
SrvPut ==
  /\ SrvUnsent # <<>>
  /\ wire' = wire \o SrvUnsent
  /\ emitted' = IF emitted < 0 THEN 0 ELSE Len(io[FirstConn])
  /\ UNCHANGED <<pc, err, io, netVars, sessVars, roundVars, mainVars, handVars,
                 timeVars, codecVars, drawVars, clientVars>>

\* The first k bytes of the stream arrive at the client's socket.
Arrive(k) ==
  /\ Quiet
  /\ k \in 1..Len(wire)
  /\ cl_in' = cl_in \o SubSeq(wire, 1, k)
  /\ wire' = SubSeq(wire, k + 1, Len(wire))
  /\ UNCHANGED <<pc, err, io, netVars, sessVars, roundVars, mainVars, handVars,
                 timeVars, codecVars, drawVars, emitted,
                 cl_pc, cl_err, cl_heard, cl_timeout, cl_srv_closed, cl_num_rounds,
                 cl_round_i, cl_deal_i, cl_wins, cl_losses, cl_ties,
                 cl_player_ranks, cl_dealer_ranks>>

\* The handler is inside recv_exact and its bytes have not all come.
ServerStarved ==
  /\ NeededBytes(FirstConn) > 0
  /\ Avail(FirstConn) < NeededBytes(FirstConn)

\* Each end waits for bytes of the other and none are on their way.
Stuck ==
  /\ Quiet
  /\ wire = <<>>
  /\ ClientStarved
  /\ ServerStarved
  /\ ~peer_closed[FirstConn]
  /\ ~cl_srv_closed

\* conn.close() of the handler reaches the client after the bytes before it
SrvFin ==
  /\ Quiet
  /\ wire = <<>>
  /\ pc[FirstConn] = "closed"
  /\ SrvClose

\* The steps of the handler thread.
JointHandler ==
  \/ Quiet /\ RecvRequest(FirstConn)
  \/ Quiet /\ SendAck(FirstConn)
  \/ Quiet /\ RoundStart(FirstConn, Shuffles)
  \/ Quiet /\ DealPlayer(FirstConn)
  \/ Quiet /\ DealUpcard(FirstConn)
  \/ Quiet /\ DealHidden(FirstConn)
  \/ Quiet /\ PlayerBust(FirstConn)
  \/ Quiet /\ RecvDecision(FirstConn)
  \/ Quiet /\ PlayerHit(FirstConn)
  \/ Quiet /\ RevealHidden(FirstConn)
  \/ Quiet /\ DealerHit(FirstConn)
  \/ Quiet /\ DecideOutcome(FirstConn)
  \/ Quiet /\ SessionEnd(FirstConn)
  \/ Quiet /\ RecvClosed(FirstConn)
  \/ Quiet /\ SendFails(FirstConn)
  \/ Quiet /\ Stuck /\ RecvTimeout(FirstConn)

\* The steps of the client process; it hears the offer of this server once.
\* The handler closes only after the session, after a timeout or after the
\* client has gone, so no sendall of the client meets a closed connection.
JointClient ==
  \/ Quiet /\ pc[FirstConn] = "recv_request" /\ ClientListen(GoodOffer)
  \/ Quiet /\ ClientConnect
  \/ Quiet /\ ClientSendRequest
  \/ Quiet /\ ClientRecvAck
  \/ Quiet /\ ClientNextRound
  \/ Quiet /\ ClientDealCard
  \/ Quiet /\ ClientUpcard
  \/ Quiet /\ \E choice \in {DECISION_HIT, DECISION_STAND} : ClientDecide(choice)
  \/ Quiet /\ ClientHitReply
  \/ Quiet /\ ClientBustWait
  \/ Quiet /\ ClientDealerWait
  \/ Quiet /\ ClientReadClosed
  \/ Quiet /\ Stuck /\ ClientReadTimeout

NextJoint ==
  \/ SrvPut
  \/ \E k \in {1, Len(wire)} : Arrive(k)
  \/ SrvFin
  \/ JointHandler
  \/ JointClient

SpecJoint == Init /\ [][NextJoint]_vars

\* The same with progress: a step that can be taken is taken.
SpecJointFair == SpecJoint /\ WF_vars(NextJoint)

(***************************************************************************)
(* Properties                                                              *)
(***************************************************************************)
\* What the log of a round says.
SendsOf(c) == SelectSeq(io[c], LAMBDA e : e.op = "send")
RecvsOf(c) == SelectSeq(io[c], LAMBDA e : e.op = "recv")
LastIo(c) == io[c][Len(io[c])]
CardPayload(card) == MAGIC_COOKIE \o <<MSG_TYPE_PAYLOAD, RES_NOT_OVER>> \o BE16(card[1]) \o <<card[2]>>
FinalPayload(result) == MAGIC_COOKIE \o <<MSG_TYPE_PAYLOAD, result, 0, 1, 0>>
IsFinal(e) == e.op = "send" /\ e.data[6] # RES_NOT_OVER
PlayerValue(c) == hand_value(Ranks(player_cards[c]))
DealerValue(c) == hand_value(Ranks(dealer_cards[c]))
\* The handler of c took this step.
HandlerStep(c) == pc'[c] # pc[c] \/ io'[c] # io[c] \/ deck'[c] # deck[c]
\* A round of c has run to its outcome and the next has not begun.
RoundOver(c) == pc[c] = "loop" /\ round_i[c] > 0

\* C1: a handler that finds the player's hand above 21 at the top of the
\* player loop does nothing but send the LOSS payload and end the round
\* (or fail on that send): it reads no decision, leaves the deck and the
\* dealer's hand alone, and never reveals the hidden card.
C1_BustStep(c) ==
  (pc[c] = "player_turn" /\ PlayerValue(c) > 21 /\ HandlerStep(c)) =>
    /\ inbox'[c] = inbox[c]
    /\ deck'[c] = deck[c]
    /\ dealer_cards'[c] = dealer_cards[c]
    /\ player_cards'[c] = player_cards[c]
    /\ \/ /\ pc'[c] = "loop"
          /\ io'[c] = Append(io[c], Send(FinalPayload(RES_LOSS)))
          /\ losses'[c] = losses[c] + 1
          /\ round_i'[c] = round_i[c] + 1
       \/ /\ pc'[c] = "closed"
          /\ err'[c] # ""
          /\ io'[c] = io[c]
    /\ \A i \in 1..Len(io'[c]) : io'[c][i] # Send(CardPayload(hidden[c]))

C1_PlayerBustIsImmediateLoss == [][\A c \in Conns : C1_BustStep(c)]_vars

C1_Witness ==
  /\ RoundOver(FirstConn)
  /\ PlayerValue(FirstConn) > 21
  /\ LastIo(FirstConn) = Send(FinalPayload(RES_LOSS))
  /\ Len(dealer_cards[FirstConn]) = 2
  /\ Len(RecvsOf(FirstConn)) = Len(player_cards[FirstConn]) - 2

\* C2: during the dealer turn a dealer card is drawn only at a dealer value
\* below 17, and the dealer turn ends only at a dealer value of 17 or more.
C2_DealerStep(c) ==
  (pc[c] = "dealer_turn" /\ HandlerStep(c)) =>
    /\ dealer_cards'[c] # dealer_cards[c] => DealerValue(c) < 17
    /\ DealerValue(c) >= 17 => deck'[c] = deck[c]
    /\ pc'[c] = "loop" => DealerValue(c) >= 17 /\ dealer_cards'[c] = dealer_cards[c]

C2_DealerStandsOn17 == [][\A c \in Conns : C2_DealerStep(c)]_vars

C2_Witness ==
  /\ RoundOver(FirstConn)
  /\ Len(dealer_cards[FirstConn]) >= 3
  /\ DealerValue(FirstConn) >= 17
  /\ DealerValue(FirstConn) <= 21
  /\ IsFinal(LastIo(FirstConn))

\* C3: the outcome sent and tallied when the dealer turn ends is WIN if the
\* dealer's total is above 21, else WIN, LOSS or TIE as the player's total is
\* above, below or equal to the dealer's.
OutcomeTable(p, d) ==
  CASE d > 21 -> RES_WIN
    [] d <= 21 /\ p > d -> RES_WIN
    [] d <= 21 /\ p < d -> RES_LOSS
    [] d <= 21 /\ p = d -> RES_TIE

C3_OutcomeStep(c) ==
  (pc[c] = "dealer_turn" /\ pc'[c] = "loop") =>
    LET r == OutcomeTable(PlayerValue(c), DealerValue(c)) IN
    /\ io'[c] = Append(io[c], Send(FinalPayload(r)))
    /\ wins'[c] = wins[c] + (IF r = RES_WIN THEN 1 ELSE 0)
    /\ losses'[c] = losses[c] + (IF r = RES_LOSS THEN 1 ELSE 0)
    /\ ties'[c] = ties[c] + (IF r = RES_TIE THEN 1 ELSE 0)

C3_OutcomeByTotals == [][\A c \in Conns : C3_OutcomeStep(c)]_vars

C3_Witness ==
  /\ RoundOver(FirstConn)
  /\ PlayerValue(FirstConn) = DealerValue(FirstConn)
  /\ LastIo(FirstConn) = Send(FinalPayload(RES_TIE))
  /\ ties[FirstConn] = 1

\* C4: soft-ace law.  The server's and the client's hand_value agree, and the
\* value is the total with every ace as 1 plus 10 for as many aces as fit
\* under 21; so it exceeds 21 only when the total with every ace as 1 does.
RECURSIVE HardTotal(_)
HardTotal(ranks) ==
  IF ranks = <<>> THEN 0
  ELSE (IF Head(ranks) >= 11 THEN 10 ELSE Head(ranks)) + HardTotal(Tail(ranks))

AceCount(ranks) == Cardinality({i \in 1..Len(ranks) : ranks[i] = 1})

SoftValue(ranks) ==
  LET hard == HardTotal(ranks)
      fits == {k \in 0..AceCount(ranks) : hard + 10 * k <= 21}
  IN IF fits = {} THEN hard
     ELSE hard + 10 * (CHOOSE k \in fits : \A j \in fits : j <= k)

C4_SoftAceLaw ==
  /\ h_server = h_client
  /\ h_server = SoftValue(h_ranks)
  /\ h_server > 21 <=> HardTotal(h_ranks) > 21
  /\ h_ranks = <<1, 1, 9>> => h_server = 21
  /\ h_ranks = <<10, 10, 5>> => h_server = 25

C4_Witness == h_ranks = <<1, 1, 9>> /\ h_server = 21 /\ h_client = 21

\* C5: the log of every round opens with the two player cards and the
\* dealer's upcard, sent as NOT_OVER payloads in that order before any read;
\* the hidden card is the fourth card drawn, and its payload appears only
\* right after a Stand was read, never in a round the player busts.
StandMessage == MAGIC_COOKIE \o <<MSG_TYPE_PAYLOAD>> \o DECISION_STAND

InRound(c) ==
  pc[c] \in {"deal_player", "deal_up", "deal_hidden", "player_turn", "hit",
             "reveal", "dealer_turn"}

C5_Opening(c) ==
  /\ Len(player_cards[c]) >= 1 => io[c][1] = Send(CardPayload(player_cards[c][1]))
  /\ Len(player_cards[c]) >= 2 => io[c][2] = Send(CardPayload(player_cards[c][2]))
  /\ Len(dealer_cards[c]) >= 1 =>
       /\ Len(player_cards[c]) >= 2
       /\ io[c][3] = Send(CardPayload(dealer_cards[c][1]))
  /\ Len(io[c]) < 3 => Len(io[c]) = Len(player_cards[c]) + Len(dealer_cards[c])

C5_Hidden(c) ==
  /\ pc[c] = "deal_hidden" => hidden[c] = <<>> /\ Len(deck[c]) = 49 /\ Len(io[c]) = 3
  /\ hidden[c] # <<>> =>
       /\ Len(dealer_cards[c]) >= 2
       /\ hidden[c] = dealer_cards[c][2]
       /\ Len(io[c]) >= 3
       /\ \A i \in 1..Len(io[c]) :
            io[c][i] = Send(CardPayload(hidden[c])) =>
              /\ i > 3
              /\ io[c][i - 1] = Recv(StandMessage)
              /\ PlayerValue(c) <= 21
  /\ (hidden[c] # <<>> /\ PlayerValue(c) > 21) =>
       \A i \in 1..Len(io[c]) : io[c][i] # Send(CardPayload(hidden[c]))

C5_DealOrder ==
  \A c \in Conns : (InRound(c) \/ RoundOver(c)) => C5_Opening(c) /\ C5_Hidden(c)

C5_Witness ==
  /\ pc[FirstConn] = "dealer_turn"
  /\ Len(io[FirstConn]) = 5
  /\ io[FirstConn][4] = Recv(StandMessage)
  /\ io[FirstConn][5] = Send(CardPayload(hidden[FirstConn]))

\* C6: once the request is accepted, wins + losses + ties is the number of
\* rounds completed, a round runs only while fewer than num_rounds are
\* completed, and a session that ends without error has completed exactly
\* num_rounds rounds.
C6_Session(c) ==
  /\ pc[c] \notin {"none", "recv_request"} /\ (acked[c] \/ pc[c] = "send_ack") =>
       /\ num_rounds[c] \in 1..255
       /\ wins[c] + losses[c] + ties[c] = round_i[c]
       /\ round_i[c] <= num_rounds[c]
  /\ InRound(c) => acked[c] /\ round_i[c] < num_rounds[c]
  /\ (pc[c] = "closed" /\ err[c] = "") =>
       /\ acked[c]
       /\ round_i[c] = num_rounds[c]
       /\ wins[c] + losses[c] + ties[c] = num_rounds[c]

C6_TallyCountsRounds == \A c \in Conns : C6_Session(c)

C6_Witness ==
  /\ pc[FirstConn] = "closed"
  /\ err[FirstConn] = ""
  /\ num_rounds[FirstConn] = 2
  /\ wins[FirstConn] + losses[FirstConn] + ties[FirstConn] = 2
  /\ ties[FirstConn] >= 1

\* C7: a payload with a result other than NOT_OVER is the last entry of its
\* round's log, carries TIE, LOSS or WIN with the filler card, and is sent in
\* the very step that counts the round, which adds one to the tally its
\* result names.
C7_Log(c) ==
  /\ \A i \in 1..Len(io[c]) :
       IsFinal(io[c][i]) =>
         /\ i = Len(io[c])
         /\ io[c][i].data \in {FinalPayload(r) : r \in {RES_TIE, RES_LOSS, RES_WIN}}
         /\ pc[c] \in {"loop", "closed"}
  /\ RoundOver(c) => io[c] # <<>> /\ IsFinal(LastIo(c))

C7_Step(c) ==
  LET counted == round_i'[c] = round_i[c] + 1
      sent == io'[c] # <<>> /\ io'[c] # io[c] /\ IsFinal(io'[c][Len(io'[c])])
  IN /\ counted <=> sent
     /\ ~counted => round_i'[c] = round_i[c] \/ pc[c] = "send_ack"
     /\ counted =>
          LET r == io'[c][Len(io'[c])].data[6] IN
          /\ io'[c] = Append(io[c], Send(FinalPayload(r)))
          /\ wins'[c] = wins[c] + (IF r = RES_WIN THEN 1 ELSE 0)
          /\ losses'[c] = losses[c] + (IF r = RES_LOSS THEN 1 ELSE 0)
          /\ ties'[c] = ties[c] + (IF r = RES_TIE THEN 1 ELSE 0)

C7_SingleOutcomeMessage ==
  /\ [](\A c \in Conns : C7_Log(c))
  /\ [][\A c \in Conns : C7_Step(c)]_vars

C7_Witness ==
  /\ RoundOver(FirstConn)
  /\ LastIo(FirstConn) = Send(FinalPayload(RES_WIN))
  /\ wins[FirstConn] = 1
  /\ Len(SelectSeq(io[FirstConn], IsFinal)) = 1
  /\ Len(io[FirstConn]) >= 6

\* C8: a handler that reads 38 bytes with a wrong cookie, a wrong type or zero
\* rounds closes the connection with a ValueError, having written no
\* acknowledgment and no payload and run no round; a closed connection stays
\* closed and nothing more is written to it.
BadRequest(req) ==
  \/ SubSeq(req, 1, 4) # MAGIC_COOKIE
  \/ req[5] # MSG_TYPE_REQUEST
  \/ req[6] = 0

C8_Step(c) ==
  /\ (/\ pc[c] = "recv_request"
      /\ HandlerStep(c)
      /\ Avail(c) >= REQUEST_SIZE
      /\ BadRequest(SubSeq(Flatten(inbox[c]), 1, REQUEST_SIZE))) =>
       /\ pc'[c] = "closed"
       /\ err'[c] = "ValueError"
       /\ ~acked'[c]
       /\ io'[c] = <<>>
       /\ deck'[c] = <<>>
       /\ round_i'[c] = 0
  /\ pc[c] = "closed" =>
       /\ pc'[c] = "closed"
       /\ acked'[c] = acked[c]
       /\ io'[c] = io[c]
       /\ deck'[c] = deck[c]

C8_BadRequestFailsConnection == [][\A c \in Conns : C8_Step(c)]_vars

C8_Witness ==
  /\ pc[FirstConn] = "closed"
  /\ err[FirstConn] = "ValueError"
  /\ ~acked[FirstConn]
  /\ io[FirstConn] = <<>>
  /\ inbox[FirstConn] = <<>>

\* C9: a handler that reads, in the player turn, 10 bytes with a wrong
\* cookie, a wrong type or a decision other than Hittt and Stand closes the
\* connection with a ValueError: no card is drawn, nothing is sent, the tally
\* and the round count stay, and nothing happens on the connection afterwards.
BadDecisionMessage(d) ==
  \/ SubSeq(d, 1, 4) # MAGIC_COOKIE
  \/ d[5] # MSG_TYPE_PAYLOAD
  \/ SubSeq(d, 6, 10) \notin {DECISION_HIT, DECISION_STAND}

C9_Step(c) ==
  /\ (/\ pc[c] = "player_turn"
      /\ PlayerValue(c) <= 21
      /\ HandlerStep(c)
      /\ Avail(c) >= PAYLOAD_CLIENT_SIZE
      /\ BadDecisionMessage(SubSeq(Flatten(inbox[c]), 1, PAYLOAD_CLIENT_SIZE))) =>
       /\ pc'[c] = "closed"
       /\ err'[c] = "ValueError"
       /\ io'[c] = Append(io[c], Recv(SubSeq(Flatten(inbox[c]), 1, PAYLOAD_CLIENT_SIZE)))
       /\ deck'[c] = deck[c]
       /\ player_cards'[c] = player_cards[c]
       /\ dealer_cards'[c] = dealer_cards[c]
       /\ <<wins[c], losses[c], ties[c], round_i[c]>>' = <<wins[c], losses[c], ties[c], round_i[c]>>
  /\ (pc[c] = "closed" /\ err[c] = "ValueError") =>
       /\ pc'[c] = "closed"
       /\ err'[c] = err[c]
       /\ io'[c] = io[c]
       /\ player_cards'[c] = player_cards[c]
       /\ dealer_cards'[c] = dealer_cards[c]
       /\ <<wins[c], losses[c], ties[c], round_i[c]>>' = <<wins[c], losses[c], ties[c], round_i[c]>>

C9_InvalidDecisionEndsSession == [][\A c \in Conns : C9_Step(c)]_vars

C9_Witness ==
  /\ pc[FirstConn] = "closed"
  /\ err[FirstConn] = "ValueError"
  /\ acked[FirstConn]
  /\ io[FirstConn] # <<>>
  /\ LastIo(FirstConn) = Recv(BadDecision)
  /\ Len(SelectSeq(io[FirstConn], IsFinal)) = 0
  /\ Len(player_cards[FirstConn]) = 3

\* C10: the step in which one handler ends on an error changes nothing of any
\* other connection (its position, stream, tally, deck, hands, log) and
\* nothing of main(); every other live handler and main() keep a step to take.
SessionState(c) ==
  <<pc[c], err[c], inbox[c], peer_closed[c], acked[c], num_rounds[c], client_name[c],
    round_i[c], wins[c], losses[c], ties[c], deck[c], player_cards[c],
    dealer_cards[c], hidden[c], io[c]>>

C10_Step(c) ==
  (pc[c] # "closed" /\ pc'[c] = "closed" /\ err'[c] # "") =>
    /\ \A d \in Conns \ {c} : SessionState(d)' = SessionState(d)
    /\ mainVars' = mainVars

C10_Progress ==
  /\ \A d \in Conns : Live(d) => ENABLED Handler(d, MultiShuffles)
  /\ ENABLED (MainOffer \/ MainAcceptTimeout)

C10_FailureIsLocal ==
  /\ []C10_Progress
  /\ [][\A c \in Conns : C10_Step(c)]_vars

C10_Witness ==
  \E c, d \in Conns :
    /\ pc[c] = "closed"
    /\ err[c] \in {"ValueError", "timeout", "ConnectionError", "OSError"}
    /\ pc[d] = "dealer_turn"
    /\ Len(io[d]) >= 5
    /\ Len(deck[d]) = 48

\* C13: every blocking read of the handler is bounded.  While recv_exact
\* waits for the request or for a decision a timeout is in force and no
\* sock.recv call has waited longer than it; once a call has waited that
\* long the clock cannot go on, the handler can fail, and the only step the
\* handler takes is to close the connection, with socket.timeout or, if the
\* client has closed, with ConnectionError, leaving session and round as
\* they are.
C13_Bounded ==
  \A c \in Conns :
    Live(c) /\ Blocked(c) => sock_timeout[c] > 0 /\ waited[c] <= sock_timeout[c]

C13_Expires ==
  \A c \in Conns :
    Live(c) /\ Blocked(c) /\ waited[c] = sock_timeout[c]
      => ENABLED TimedOut(c) /\ ~ENABLED Tick(c)

C13_Step(c) ==
  Live(c) /\ Blocked(c) /\ waited[c] = sock_timeout[c] /\ pc'[c] # pc[c]
    => /\ pc'[c] = "closed"
       /\ err'[c] \in {"timeout", "ConnectionError"}
       /\ UNCHANGED <<io, sessVars, roundVars>>

C19_RequestBound ==
  \A c \in Conns : pc[c] = "recv_request" => sock_timeout[c] = SERVER_TIMEOUT

C19_HandshakeBoundLonger ==
  \A c \in Conns :
    pc[c] = "player_turn" /\ Blocked(c) => sock_timeout[c] < SERVER_TIMEOUT

C19_Witness ==
  /\ pc[FirstConn] = "player_turn"
  /\ Blocked(FirstConn)
  /\ sock_timeout[FirstConn] = SERVER_TIMEOUT

\* C14: a handler that observes that the client has closed the connection,
\* by a read that finds the stream ended or by a send that fails, closes its
\* own end in that step: it draws no card, sends nothing, counts no outcome
\* and starts no round, and a closed handler never takes a step again.
C14_Observes(c) ==
  \/ Live(c) /\ peer_closed[c] /\ Blocked(c) /\ HandlerStep(c)
  \/ Live(c) /\ peer_closed[c] /\ err'[c] \in {"ConnectionError", "OSError"}

C14_Step(c) ==
  /\ C14_Observes(c) =>
       /\ pc'[c] = "closed"
       /\ <<io[c], deck[c], player_cards[c], dealer_cards[c], hidden[c]>>'
            = <<io[c], deck[c], player_cards[c], dealer_cards[c], hidden[c]>>
       /\ <<wins[c], losses[c], ties[c], round_i[c]>>' = <<wins[c], losses[c], ties[c], round_i[c]>>
  /\ pc[c] = "closed" =>
       /\ pc'[c] = "closed"
       /\ err'[c] = err[c]
       /\ <<io[c], deck[c], player_cards[c], dealer_cards[c], hidden[c]>>'
            = <<io[c], deck[c], player_cards[c], dealer_cards[c], hidden[c]>>
       /\ <<wins[c], losses[c], ties[c], round_i[c]>>' = <<wins[c], losses[c], ties[c], round_i[c]>>

C14_CloseStopsRound == [][\A c \in Conns : C14_Step(c)]_vars

\* The client closed during the player turn of the second round: the first
\* round is counted, the second is not.
C14_Witness ==
  /\ pc[FirstConn] = "closed"
  /\ err[FirstConn] = "ConnectionError"
  /\ peer_closed[FirstConn]
  /\ num_rounds[FirstConn] = 2
  /\ round_i[FirstConn] = 1
  /\ Len(player_cards[FirstConn]) >= 2
  /\ hidden[FirstConn] # <<>>

\* C18: a round starts with a deck of the 52 cards, each once, and with empty
\* hands; from then on the deck, the player's hand and the dealer's hand
\* (which holds the hidden card from the moment it is drawn) together are
\* those 52 cards, each once, whatever the previous round left behind.
AllCards == {<<r, s>> : r \in 1..13, s \in 0..3}

CardsOf(q) == {q[i] : i \in 1..Len(q)}

C18_Held(c) == deck[c] \o player_cards[c] \o dealer_cards[c]

C18_Partition(c) ==
  deck[c] # <<>> =>
    /\ Len(C18_Held(c)) = 52
    /\ CardsOf(C18_Held(c)) = AllCards
    /\ hidden[c] # <<>> => Len(dealer_cards[c]) >= 2 /\ dealer_cards[c][2] = hidden[c]

C18_Fresh(c) ==
  (pc[c] = "loop" /\ pc'[c] = "deal_player") =>
    /\ Len(deck'[c]) = 52
    /\ CardsOf(deck'[c]) = AllCards
    /\ player_cards'[c] = <<>>
    /\ dealer_cards'[c] = <<>>
    /\ hidden'[c] = <<>>

C18_FreshDeckEachRound ==
  /\ [](\A c \in Conns : C18_Partition(c))
  /\ [][\A c \in Conns : C18_Fresh(c)]_vars

\* The second round of a session, after a hit and a dealer draw.
C18_Witness ==
  /\ round_i[FirstConn] = 1
  /\ pc[FirstConn] = "dealer_turn"
  /\ Len(player_cards[FirstConn]) = 3
  /\ Len(dealer_cards[FirstConn]) = 3
  /\ Len(deck[FirstConn]) = 46

\* C11: the end of the offer loop of main() leaves every session in progress
\* as it is: no handler is stopped by it, and every handler that was in a
\* session still has a step to take.
C11_InSession(c) == acked[c] /\ pc[c] \notin {"none", "closed"}

C11_HandlersOutliveDiscovery ==
  main_pc = "exited" =>
    \A c \in Conns :
      C11_InSession(c) => pc[c] # "killed" /\ ENABLED Handler(c, MultiShuffles)

\* main() has ended while a round was being played.
C11_Witness ==
  /\ main_pc = "exited"
  /\ \E c \in Conns :
       /\ pc[c] = "killed"
       /\ acked[c]
       /\ round_i[c] < num_rounds[c]
       /\ Len(player_cards[c]) >= 2

\* C15: round-trip law.  For every message with fields in range whose name,
\* if it has one, survives the 32-byte field (its UTF-8 encoding has at most
\* 32 bytes and it holds no U+0000), unpack applied to what pack returned
\* gives back the field values handed to pack.
NameFits(name) ==
  /\ Len(utf8_encode(name)) <= NAME_SIZE
  /\ \A i \in 1..Len(name) : name[i] # 0

RoundTrip ==
  CASE m_kind = "offer" ->
         m_out.offer.ok /\ m_out.offer.port = m_in.port /\ m_out.offer.name = m_in.name
    [] m_kind = "request" ->
         /\ m_out.request.ok
         /\ m_out.request.num_rounds = m_in.num_rounds
         /\ m_out.request.client_name = m_in.client_name
    [] m_kind = "decision" ->
         m_out.decision.ok /\ m_out.decision.decision = m_in.decision
    [] m_kind = "payload" ->
         /\ m_out.payload.ok
         /\ m_out.payload.result = m_in.result
         /\ m_out.payload.rank = m_in.rank
         /\ m_out.payload.suit = m_in.suit
    [] OTHER -> TRUE

KindSize ==
  [offer |-> OFFER_SIZE, request |-> REQUEST_SIZE,
   decision |-> PAYLOAD_CLIENT_SIZE, payload |-> PAYLOAD_SERVER_SIZE]

KindType ==
  [offer |-> MSG_TYPE_OFFER, request |-> MSG_TYPE_REQUEST,
   decision |-> MSG_TYPE_PAYLOAD, payload |-> MSG_TYPE_PAYLOAD]

Malformed(k, data) ==
  \/ Len(data) # KindSize[k]
  \/ SubSeq(data, 1, 4) # MAGIC_COOKIE
  \/ data[5] # KindType[k]

C16_MalformedIsRejected ==
  \A k \in DOMAIN KindSize : Malformed(k, m_bytes) => ~m_out[k].ok

\* A request cut down to the 9 bytes of a round payload: right length and
\* cookie, the type of a request.
C16_Witness ==
  /\ m_kind = "shortened"
  /\ Len(m_bytes) = PAYLOAD_SERVER_SIZE
  /\ SubSeq(m_bytes, 1, 4) = MAGIC_COOKIE
  /\ m_bytes[5] = MSG_TYPE_REQUEST
  /\ ~m_out.payload.ok

\* C20: whatever the shuffle and whatever the client decides, no draw of a
\* round finds the deck empty: the round never ends in the deck-exhausted
\* error, and at least 36 of the 52 cards are still on the deck.
CardsDrawn == Len(d_player) + Len(d_dealer)

C20_DeckNeverExhausted ==
  /\ d_phase # "exhausted"
  /\ CardsDrawn <= 16
  /\ DeckLeft

\* The longest round: sixteen cards drawn.
C20_Witness ==
  /\ d_phase = "dealer"
  /\ dealer_stands(hand_value(d_dealer))
  /\ CardsDrawn = 16

\* C12: no failure of a session ends the client process: after a failed
\* connect, a read that times out, a connection the server closes or a
\* malformed payload, main() is back at listening for offers.
C12_ClientSurvivesSessionFailure == cl_pc # "exited"

\* The server closed the connection while the client waited for a card: the
\* ConnectionError of recv_exact ended the process.
C12_Witness ==
  /\ cl_pc = "exited"
  /\ cl_err = "ConnectionError"
  /\ cl_srv_closed
  /\ cl_round_i >= 1

\* C17: a datagram that is not a well-formed offer (wrong length, cookie or
\* type) is dropped: main() stays at listening, starts no session and does
\* not exit; a well-formed offer that arrives afterwards starts a session.
C17_Malformed(data) ==
  \/ Len(data) # OFFER_SIZE
  \/ SubSeq(data, 1, 4) # MAGIC_COOKIE
  \/ data[5] # MSG_TYPE_OFFER

C17_Dropped ==
  \A data \in Datagrams :
    (C17_Malformed(data) /\ ClientListen(data)) =>
      /\ cl_pc' = "listen"
      /\ cl_heard' = "discarded"
      /\ cl_err' = cl_err
      /\ UNCHANGED <<netVars, cl_timeout, cl_in, cl_num_rounds, cl_round_i>>

C17_Accepted ==
  \A data \in Datagrams :
    (~C17_Malformed(data) /\ ClientListen(data)) =>
      /\ cl_pc' = "connect"
      /\ cl_heard' \in {"offer", "offer_after_discard"}
      /\ cl_num_rounds' \in 1..MaxRounds

C17_MalformedOfferDiscarded == [][C17_Dropped /\ C17_Accepted]_vars

\* A malformed datagram was dropped, then an offer was taken, and its session
\* has reached the player's turn.
C17_Witness ==
  /\ cl_heard = "offer_after_discard"
  /\ cl_pc = "player_turn"
  /\ cl_err = ""

\* The client and the handler are in the same round.
SameRound ==
  /\ cl_round_i = round_i[FirstConn] + 1
  /\ pc[FirstConn] \notin {"recv_request", "send_ack", "loop", "closed", "none"}

IsPrefix(p, q) == Len(p) <= Len(q) /\ p = SubSeq(q, 1, Len(p))

\* The bytes a step of the client took off the stream.
Taken == SubSeq(cl_in, 1, Len(cl_in) - Len(cl_in'))

\* C21: the read of the acknowledgment takes bytes of b"OK" only, so that
\* every nine bytes the client decodes afterwards are a payload the server
\* sent, in the order sent: the cards the client has decoded in a round are
\* the first cards of the server's hands of that round.
C21_AckStep ==
  (cl_pc = "recv_ack" /\ cl_pc' = "round") => IsPrefix(Taken, <<79, 75>>)

C21_DecodeStep ==
  (cl_pc \in ClientReads \ {"recv_ack"} /\ Len(cl_in') < Len(cl_in)) =>
    /\ unpack_payload_server(Taken).ok
    /\ cl_pc' # "exited"

C21_InOrder ==
  (SameRound /\ ClientInSession) =>
    /\ IsPrefix(cl_player_ranks, Ranks(player_cards[FirstConn]))
    /\ IsPrefix(cl_dealer_ranks, Ranks(dealer_cards[FirstConn]))

C21_AckReadLeavesPayloads == []C21_InOrder /\ [][C21_AckStep /\ C21_DecodeStep]_vars

\* The handler has dealt the three cards of round 1 and waits for a
\* decision; the client has read the acknowledgment and waits for its first
\* card; every byte the server wrote is gone.
C21_Witness ==
  /\ pc[FirstConn] = "player_turn"
  /\ cl_pc = "deal"
  /\ cl_round_i = 1
  /\ cl_player_ranks = <<>>
  /\ cl_in = <<>>
  /\ wire = <<>>
  /\ Quiet

\* C22: lockstep within a round.  Before any timeout or close the two ends
\* never wait for each other with nothing in flight; the client sends a
\* decision only when the handler is about to read one; the handler reads
\* one decision for each Hit and one for a Stand; when a round is over no
\* decision is left unread.
C22_NoMutualWait == ~(Stuck /\ pc[FirstConn] = "player_turn")

C22_SendStep ==
  (inbox'[FirstConn] # inbox[FirstConn] /\ cl_pc = "player_turn") =>
    /\ SameRound
    /\ pc[FirstConn] \in {"deal_hidden", "player_turn"}
    /\ ~player_busts(PTotal(FirstConn))
    /\ inbox[FirstConn] = <<>>

C22_ReadsMatch ==
  (pc[FirstConn] \notin {"none", "recv_request", "send_ack"}) =>
    LET reads == RecvsOf(FirstConn)
        hits == SelectSeq(reads, LAMBDA e : e.data = pack_payload_client(DECISION_HIT).data)
        stands == SelectSeq(reads, LAMBDA e : e.data = pack_payload_client(DECISION_STAND).data)
    IN /\ Len(reads) = Len(hits) + Len(stands)
       /\ Len(stands) <= 1
       /\ Len(player_cards[FirstConn]) \in {0, 1, 2 + Len(hits), 2 + Len(hits) - 1}

C22_Boundary ==
  (pc[FirstConn] = "loop" /\ err[FirstConn] = "") => inbox[FirstConn] = <<>>

C22_Lockstep ==
  /\ [](C22_NoMutualWait /\ C22_ReadsMatch /\ C22_Boundary)
  /\ [][C22_SendStep]_vars

\* The two ends wait for each other in round 1: the handler for a decision,
\* the client for the dealer's upcard, with two cards decoded.
C22_Witness ==
  /\ Stuck
  /\ pc[FirstConn] = "player_turn"
  /\ cl_pc = "upcard"
  /\ Len(cl_player_ranks) = 2

\* C23: at the decision prompt the client's player ranks are the ranks of
\* the handler's player hand; when play_session has run through its last
\* round, its wins, losses and ties are the handler's and add up to the
\* number of rounds both ends were given.
C23_Prompt ==
  cl_pc = "player_turn" =>
    /\ SameRound
    /\ cl_player_ranks = Ranks(player_cards[FirstConn])

C23_EndStep ==
  (cl_pc = "round" /\ cl_pc' = "listen") =>
    /\ err[FirstConn] = ""
    /\ cl_err = ""
    /\ round_i[FirstConn] = num_rounds[FirstConn]
    /\ cl_num_rounds = num_rounds[FirstConn]
    /\ <<cl_wins, cl_losses, cl_ties>> = <<wins[FirstConn], losses[FirstConn], ties[FirstConn]>>
    /\ cl_wins + cl_losses + cl_ties = cl_num_rounds

C23_ClientViewIsServerView == []C23_Prompt /\ [][C23_EndStep]_vars

\* A session of two rounds is over at both ends: one round won, one lost.
C23_Witness ==
  /\ cl_pc = "listen"
  /\ cl_heard = "offer"
  /\ cl_num_rounds = 2
  /\ cl_wins = 1
  /\ cl_losses = 1
  /\ pc[FirstConn] = "closed"
  /\ err[FirstConn] = ""
  /\ wins[FirstConn] = 1

\* C24: termination.  With a user who answers in time and a network that
\* does not fail, the session runs through all its rounds and both ends
\* close the connection.
C24_Done ==
  /\ pc[FirstConn] = "closed"
  /\ err[FirstConn] = ""
  /\ round_i[FirstConn] = num_rounds[FirstConn]
  /\ num_rounds[FirstConn] >= 1
  /\ cl_pc = "listen"
  /\ cl_err = ""
  /\ peer_closed[FirstConn]
  /\ cl_wins + cl_losses + cl_ties = cl_num_rounds

C24_SessionCompletes == <>C24_Done

\* Both ends have closed after a timeout in round 1.
C24_Witness ==
  /\ pc[FirstConn] = "closed"
  /\ err[FirstConn] \in {"timeout", "ConnectionError"}
  /\ cl_pc = "listen"
  /\ cl_heard = "offer"
  /\ round_i[FirstConn] = 0
  /\ cl_wins + cl_losses + cl_ties = 0

====
